---- MODULE Spec2Model ----
(***************************************************************************)
(* StudioBot, YouTube Music integration: the polling monitor               *)
(* (src/src/youtube_music/monitor.py), the pre-generated content queue     *)
(* (src/src/youtube_music/content_queue.py) and the content break          *)
(* (src/src/youtube_music/content_generator.py).                           *)
(*                                                                         *)
(* Python values that may be None are modelled as sequences of length at   *)
(* most one: <<>> is None, <<x>> is the value x.  Times are in seconds.    *)
(***************************************************************************)
EXTENDS Integers, Sequences, FiniteSets, TLC

None == <<>>
Some(x) == <<x>>
IsNone(o) == o = <<>>
Val(o) == o[1]
\* a key that is absent from a JSON object (dict.get then yields its default)
Missing == <<0, 0>>

(***************************************************************************)
(* Bounds of the model                                                     *)
(***************************************************************************)
\* the clock advances in steps drawn from TickSteps; while the polling loop is
\* explored it stops advancing at MaxPollTime seconds
TickSteps == {30}
MaxPollTime == 30

(***************************************************************************)
(* What the player can answer                                              *)
(***************************************************************************)
VideoIds == {"v1", "v2"}
\* the (videoId, title) pairs the player reports: two videos, one of them
\* also reported under a second title
RawTracks == {<<"v1", "t1">>, <<"v1", "t2">>, <<"v2", "t1">>}
Artists == {"a1"}
\* songDuration / elapsedSeconds of a /api/v1/song answer: a number, null
\* (None), or absent
RawDurations == {Some(40), Missing}
\* (elapsedSeconds, isPaused) of an answer
RawPlayback == {<<Some(5), Some(FALSE)>>, <<Some(10), Some(FALSE)>>,
                <<Some(10), Missing>>, <<None, Some(FALSE)>>}

RawSongs ==
  { [videoId |-> vt[1], title |-> vt[2], artist |-> a, songDuration |-> d,
     elapsedSeconds |-> pb[1], isPaused |-> pb[2]] :
       vt \in RawTracks, a \in Artists, d \in RawDurations, pb \in RawPlayback }

\* dict.get(key, default): the default only when the key is absent
Get(v, default) == IF v = Missing THEN default ELSE v

normalize_song_data(data) ==
  [ id |-> data.videoId,
    title |-> data.title,
    artist |-> data.artist,
    duration_seconds |-> Get(data.songDuration, Some(0)),
    current_time_seconds |-> Get(data.elapsedSeconds, Some(0)),
    is_playing |-> (Get(data.isPaused, Some(TRUE)) = Some(FALSE)) ]

\* the id the polling loop derives from a snapshot (monitor.py:147)
TrackId(song) == song.id \o "_" \o song.title \o "_" \o song.artist

(***************************************************************************)
(* Classification: YouTubeMusicMonitor.was_natural_transition              *)
(***************************************************************************)
NaturalThreshold == 30

\* f"{x:.1f}" raises TypeError on None
FormatRaises(x) == IsNone(x)

\* "if old_duration > 0: return remaining <= 30", else fall through to the
\* end of the function; None > 0 raises TypeError
RemainingRuleMutThreshold(old_duration, position) ==
  IF IsNone(old_duration) THEN "raise"
  ELSE IF Val(old_duration) > 0
       THEN IF Val(old_duration) - Val(position) < NaturalThreshold
            THEN "natural" ELSE "manual"
       ELSE "undecided"

RemainingRule(old_duration, position) ==
  IF IsNone(old_duration) THEN "raise"
  ELSE IF Val(old_duration) > 0
       THEN IF Val(old_duration) - Val(position) <= NaturalThreshold
            THEN "natural" ELSE "manual"
       ELSE "undecided"

\* monitor.py:203-252, the inner try block; current_song is the re-query's result
InnerClassify(old_track, current_song) ==
  LET old_duration == old_track.duration_seconds
      position == IF ~IsNone(current_song) /\ Val(current_song).id = old_track.id
                  THEN Val(current_song).current_time_seconds
                  ELSE old_track.current_time_seconds
  IN IF FormatRaises(position) THEN "raise"
     ELSE RemainingRule(old_duration, position)

\* the wall-clock rule with "more than 70%" in place of "at least 70%"
WallClockRuleMutStrict(old_track, track_start, now_) ==
  LET old_duration == old_track.duration_seconds
  IN IF IsNone(old_duration) THEN "raise"
     ELSE IF Val(old_duration) > 0
             /\ 10 * (now_ - Val(track_start)) > 7 * Val(old_duration)
          THEN "natural" ELSE "manual"

\* monitor.py:254-266, the handler of the inner try: the wall-clock rule
WallClockRule(old_track, track_start, now_) ==
  LET old_duration == old_track.duration_seconds
  IN IF IsNone(old_duration) THEN "raise"
     ELSE IF Val(old_duration) > 0
             /\ 10 * (now_ - Val(track_start)) >= 7 * Val(old_duration)
          THEN "natural" ELSE "manual"

\* the body of the outer try (monitor.py:195-266)
ClassifyBody(old_track, track_start, current_song, now_) ==
  LET inner == InnerClassify(old_track, current_song)
  IN IF inner = "raise" THEN WallClockRule(old_track, track_start, now_)
     ELSE inner

\* monitor.py:268-271 unguarded: an error of the body escapes to the caller
OuterHandlerMutNoCatch(body) ==
  IF body = "natural" THEN "natural"
  ELSE IF body = "raise" THEN "raise" ELSE "manual"

\* monitor.py:268-271: "except Exception" logs, then "return False"
OuterHandler(body) == IF body = "natural" THEN "natural" ELSE "manual"

\* monitor.py:192-193: with old_track or track_start_time absent the function
\* returns False before any re-query
NeedsRequery(old_track, track_start) ==
  ~IsNone(old_track) /\ ~IsNone(track_start)

\* the function without its first guard: no history counts as natural
was_natural_transition_MutNoGuard(old_track, track_start, current_song, now_) ==
  IF ~NeedsRequery(old_track, track_start) THEN "natural"
  ELSE OuterHandler(ClassifyBody(Val(old_track), track_start, current_song, now_))

\* the whole function: "natural" (True), "manual" (False) or "raise"
was_natural_transition(old_track, track_start, current_song, now_) ==
  IF ~NeedsRequery(old_track, track_start) THEN "manual"
  ELSE OuterHandler(ClassifyBody(Val(old_track), track_start, current_song, now_))

(***************************************************************************)
(* The player's HTTP interface as the monitor sees it                      *)
(***************************************************************************)
SongStatuses == {200, 204, 401, 500}
NoData == CHOOSE d \in RawSongs : TRUE
\* one answer to GET /api/v1/song
SongResponses ==
  { [status |-> 200, data |-> d] : d \in RawSongs }
    \cup { [status |-> s, data |-> NoData] : s \in SongStatuses \ {200} }
NoResponse == [status |-> 500, data |-> NoData]

\* Everything the player answers during one get_current_song call: the
\* authentication (when no token is held), the request, and after a 401 the
\* re-authentication and the retried request.  Parts the call does not
\* reach are fixed, so that each behaviour of the call appears once.
SongAnswersAuthenticated ==
  { [auth |-> TRUE, first |-> r, reauth |-> FALSE, retry |-> NoResponse] :
      r \in SongResponses }
  \cup { [auth |-> TRUE, first |-> [status |-> 401, data |-> NoData],
          reauth |-> TRUE, retry |-> r2] : r2 \in SongResponses }
SongAnswersAuthFailed ==
  { [auth |-> FALSE, first |-> NoResponse, reauth |-> FALSE, retry |-> NoResponse] }
SongAnswers(token) ==
  IF token THEN SongAnswersAuthenticated
  ELSE SongAnswersAuthenticated \cup SongAnswersAuthFailed

\* YouTubeMusicMonitor.get_current_song: the snapshot or None, and whether a
\* token is held afterwards
get_current_song(token, ans) ==
  IF ~token /\ ~ans.auth
  THEN [song |-> None, token |-> FALSE]
  ELSE IF ans.first.status = 200
       THEN [song |-> Some(normalize_song_data(ans.first.data)), token |-> TRUE]
       ELSE IF ans.first.status = 401 /\ ans.reauth /\ ans.retry.status = 200
            THEN [song |-> Some(normalize_song_data(ans.retry.data)), token |-> TRUE]
            ELSE [song |-> None, token |-> TRUE]

\* How the player query of a get_current_song call ended: with a track, with
\* the player's answer that nothing is playing (204), or without an answer
\* to go by (failed authentication, an unexpected status, a failed retry)
QueryOutcome(token, ans) ==
  IF ~token /\ ~ans.auth THEN "failed"
  ELSE IF ans.first.status = 200 THEN "track"
  ELSE IF ans.first.status = 204 THEN "nothing"
  ELSE IF ans.first.status = 401 /\ ans.reauth
       THEN IF ans.retry.status = 200 THEN "track"
            ELSE IF ans.retry.status = 204 THEN "nothing" ELSE "failed"
       ELSE "failed"

(***************************************************************************)
(* State                                                                   *)
(***************************************************************************)
VARIABLES
  now,                 \* the wall clock, datetime.now()
  \* YouTubeMusicMonitor
  current_track_id, current_track_info, track_start_time,
  monitor_is_running, access_token,
  session,             \* self.session: None, or the ClientSession in use
  sessions,            \* per ClientSession created so far, its close() calls
  mpc,                 \* where start_monitoring is
  old_track, old_start_time,   \* locals of the polling loop across the re-query
  iter,                \* what the current loop iteration has done so far
  seen_change,         \* a track change has been detected since construction
  \* one call of was_natural_transition on chosen inputs
  cl,
  \* one call of a player request method of the monitor on chosen inputs
  rq,
  \* YouTubeMusicIntegration
  ipc,                 \* where start() is
  starts,              \* how often start() has been called
  hnd,                 \* where handle_song_switch is, and what it has done
  \* ContentQueue
  max_queue_size, min_ads, min_conversations, max_age_minutes,
  queue, last_served_type, queue_is_running,
  refill_task,         \* the background task: none, created, sleeping, cancelling, done
  refill_wake_at,      \* when its asyncio.sleep(30) may return
  fill,                \* the fill_queue runs inside "async with generation_lock"
  last_fill,           \* what the latest finished fill_queue run did
  fill_waiters,        \* spawned fill_queue tasks that wait for generation_lock
  trigger_tasks,       \* spawned _trigger_refill tasks that have not run yet
  cpc,                 \* where the caller of start / get_next_content / stop is
  next_id,             \* identity of the next ContentItem object
  failures,            \* generation calls that have failed so far
  served,              \* identities get_next_content has returned, in order
  last_get,            \* what the latest get_next_content call did
  \* ContentGenerator.execute_immediate_content_break
  bpc,                 \* where the break is
  brk,                 \* its arguments, settings and locals
  player_calls         \* the player and audio calls it has made, in order

monitorVars == <<current_track_id, current_track_info, track_start_time,
                 monitor_is_running, session, sessions, access_token, mpc,
                 old_track, old_start_time, iter, seen_change>>
queueVars == <<max_queue_size, min_ads, min_conversations, max_age_minutes,
               queue, last_served_type, queue_is_running, refill_task,
               refill_wake_at, fill, last_fill, fill_waiters, trigger_tasks,
               cpc, next_id, failures, served, last_get>>
breakVars == <<bpc, brk, player_calls>>
callVars == <<cl, rq>>
integrationVars == <<ipc, starts, hnd>>
vars == <<now, monitorVars, callVars, integrationVars, queueVars, breakVars>>

(***************************************************************************)
(* was_natural_transition on its own                                       *)
(***************************************************************************)
ClDurations == {Some(200), Some(0), Some(-1), None}
ClPositions == {Some(100), Some(169), Some(170), Some(171), Some(175), None}
ClNows == {0, 139, 140, 150}

ClSnapshot(v, d, p) ==
  [id |-> v, title |-> "t1", artist |-> "a1", duration_seconds |-> d,
   current_time_seconds |-> p, is_playing |-> TRUE]

ClInputs ==
  [ old_track : {None} \cup { Some(ClSnapshot("v1", d, p)) :
                                d \in ClDurations, p \in ClPositions },
    track_start : {None, Some(0)},
    current_song : {None} \cup { Some(ClSnapshot(v, Some(200), p)) :
                                   v \in VideoIds, p \in ClPositions },
    now_ : ClNows ]

NoFill == <<>>

NoHandler == [pc |-> "idle", dispatches |-> 0, source |-> "none",
              generation_calls |-> 0, fallback_calls |-> 0, breaks |-> 0,
              breaks_returned |-> 0]

\* YouTubeMusicIntegration.__init__ (youtube_music_integration.py:50-61):
\* start() has not been called and no handler runs
InitIntegration ==
  /\ ipc = "idle"
  /\ starts = 0
  /\ hnd = NoHandler

InitBreak ==
  /\ bpc = "idle"
  /\ brk = [state |-> "none"]
  /\ player_calls = <<>>

\* ContentQueue.__init__ (content_queue.py:34-53) with the settings c
InitQueueWith(c) ==
  /\ max_queue_size = c.max_size
  /\ min_ads = c.min_ads
  /\ min_conversations = c.min_conversations
  /\ max_age_minutes = c.max_age_minutes
  /\ queue = <<>>
  /\ last_served_type = None
  /\ queue_is_running = FALSE
  /\ refill_task = "none"
  /\ refill_wake_at = 0
  /\ fill = NoFill
  /\ last_fill = [pc |-> "none"]
  /\ fill_waiters = 0
  /\ trigger_tasks = 0
  /\ cpc = "idle"
  /\ next_id = 1
  /\ failures = 0
  /\ served = <<>>
  /\ last_get = [state |-> "none"]

DefaultQueueConfig ==
  [max_size |-> 4, min_ads |-> 1, min_conversations |-> 1, max_age_minutes |-> 30]

InitMonitor ==
  /\ current_track_id = None
  /\ current_track_info = None
  /\ track_start_time = None
  /\ monitor_is_running = FALSE
  /\ session = None
  /\ sessions = <<>>
  /\ access_token = FALSE
  /\ mpc = "idle"
  /\ old_track = None
  /\ old_start_time = None
  /\ iter = [state |-> "none"]
  /\ seen_change = FALSE

InitClassify ==
  /\ now = 0
  /\ InitMonitor
  /\ InitQueueWith(DefaultQueueConfig)
  /\ InitBreak
  /\ InitIntegration
  /\ \E i \in ClInputs : cl = [state |-> "called", input |-> i]
  /\ rq = [state |-> "idle"]

\* the call returns (or raises)
ClassifyCall ==
  /\ cl.state = "called"
  /\ cl' = [state |-> "returned", input |-> cl.input,
            result |-> was_natural_transition(cl.input.old_track, cl.input.track_start,
                                              cl.input.current_song, cl.input.now_)]
  /\ UNCHANGED <<now, monitorVars, rq, integrationVars, queueVars, breakVars>>

NextClassify == ClassifyCall
SpecClassify == InitClassify /\ [][NextClassify]_vars

(***************************************************************************)
(* The player requests of the monitor, each as one call                    *)
(***************************************************************************)
PlayerCommands == {"pause_playback", "resume_playback", "skip_to_next",
                   "get_volume", "set_volume"}
PlayerMethods == {"get_current_song"} \cup PlayerCommands

\* the status a command takes as success: 200 for get_volume (monitor.py:342),
\* 204 for the others (monitor.py:282, 302, 322, 367)
OkStatus(method) == IF method = "get_volume" THEN 200 ELSE 204

\* what the player answers during one command call, in the shape of SongAnswers
CommandAnswers ==
  { [auth |-> a, first |-> [status |-> s1, data |-> NoData],
     reauth |-> ra, retry |-> [status |-> s2, data |-> NoData]] :
      a \in BOOLEAN, ra \in BOOLEAN, s1 \in SongStatuses, s2 \in SongStatuses }

\* The HTTP requests of one get_current_song call in order (monitor.py:71-101):
\* "auth" is POST /auth/<id> (get_access_token), "request" GET /api/v1/song
get_current_song_requests(token, ans) ==
  LET first_auth == IF token THEN <<>> ELSE <<"auth">>
  IN IF ~token /\ ~ans.auth THEN first_auth
     ELSE IF ans.first.status = 401
          THEN first_auth \o <<"request", "auth">>
                 \o (IF ans.reauth THEN <<"request">> ELSE <<>>)
          ELSE first_auth \o <<"request">>

\* pause_playback, resume_playback, skip_to_next, get_volume, set_volume
\* (monitor.py:273-376): authenticate when no token is held, send the request
\* once, and succeed on the expected status only.  They do not call
\* create_session: with a token held and self.session None the request raises
\* and the handler returns the failure value.
player_command(method, token, has_session, ans) ==
  IF ~token /\ ~ans.auth
  THEN [ok |-> FALSE, requests |-> <<"auth">>, token |-> FALSE]
  ELSE IF token /\ ~has_session
       THEN [ok |-> FALSE, requests |-> <<>>, token |-> TRUE]
       ELSE [ok |-> ans.first.status = OkStatus(method),
             requests |-> (IF token THEN <<>> ELSE <<"auth">>) \o <<"request">>,
             token |-> TRUE]

\* one call of a player method: whether it reports success, and its requests
player_request(method, token, has_session, ans) ==
  IF method = "get_current_song"
  THEN [ok |-> ~IsNone(get_current_song(token, ans).song),
        requests |-> get_current_song_requests(token, ans),
        token |-> get_current_song(token, ans).token]
  ELSE player_command(method, token, has_session, ans)

RequestInputs ==
  { [method |-> "get_current_song", token |-> t, has_session |-> s, ans |-> a] :
      t \in BOOLEAN, s \in BOOLEAN, a \in SongAnswersAuthenticated \cup SongAnswersAuthFailed }
  \cup { [method |-> m, token |-> t, has_session |-> s, ans |-> a] :
           m \in PlayerCommands, t \in BOOLEAN, s \in BOOLEAN, a \in CommandAnswers }

InitRequest ==
  /\ now = 0
  /\ InitMonitor
  /\ InitQueueWith(DefaultQueueConfig)
  /\ InitBreak
  /\ InitIntegration
  /\ cl = [state |-> "idle"]
  /\ \E i \in RequestInputs : rq = [state |-> "called", input |-> i]

\* the call returns
RequestCall ==
  /\ rq.state = "called"
  /\ rq' = [state |-> "returned", input |-> rq.input,
            result |-> player_request(rq.input.method, rq.input.token,
                                      rq.input.has_session, rq.input.ans)]
  /\ UNCHANGED <<now, monitorVars, cl, integrationVars, queueVars, breakVars>>

NextRequest == RequestCall
SpecRequest == InitRequest /\ [][NextRequest]_vars

(***************************************************************************)
(* Claims about the player requests                                        *)
(***************************************************************************)
CountOf(seq, x) == Cardinality({i \in 1..Len(seq) : seq[i] = x})

\* the requests of the call that follow its first player request
AfterFirstRequest(seq) ==
  LET first == CHOOSE i \in 1..Len(seq) :
                 seq[i] = "request" /\ \A j \in 1..(i - 1) : seq[j] # "request"
  IN SubSeq(seq, first + 1, Len(seq))

\* the call has returned, and its first player request was answered 401
Answered401 ==
  /\ rq.state = "returned"
  /\ CountOf(rq.result.requests, "request") >= 1
  /\ rq.input.ans.first.status = 401

\* the rule of one re-authentication and one retry, for the call in rq
ReauthAndRetryOnce ==
  LET later == AfterFirstRequest(rq.result.requests)
      retry_ok == rq.input.ans.retry.status = 200
  IN /\ CountOf(later, "auth") = 1
     /\ CountOf(later, "request") = (IF rq.input.ans.reauth THEN 1 ELSE 0)
     /\ (~rq.input.ans.reauth \/ ~retry_ok) => ~rq.result.ok

\* C28 as stated: a player request answered 401 is followed by exactly one
\* re-authentication and, when that succeeds, by exactly one retry of the same
\* request, and a failed re-authentication or retry makes the call report
\* failure; for the track query and for pause, resume, skip and volume alike.
C28_AsStated == Answered401 => ReauthAndRetryOnce

\* C28, the part the code keeps: the track query answered 401
\* re-authenticates once, retries once when that succeeded, and reports none
\* when the re-authentication or the retry fails.
C28_TrackQueryRetriesOnce ==
  (Answered401 /\ rq.input.method = "get_current_song") => ReauthAndRetryOnce

\* C28, what the code does for the commands: a command answered 401 sends
\* nothing more, neither a re-authentication nor a retry, and reports failure.
C28_CommandsGiveUp ==
  (Answered401 /\ rq.input.method \in PlayerCommands)
    => /\ AfterFirstRequest(rq.result.requests) = <<>>
       /\ ~rq.result.ok

C28_PauseGivesUp ==
  /\ Answered401
  /\ rq.input.method = "pause_playback"
  /\ rq.input.token /\ rq.input.has_session
  /\ rq.input.ans.reauth
  /\ rq.result.requests = <<"request">>
  /\ ~rq.result.ok

C28_TrackQueryRetried ==
  /\ Answered401
  /\ rq.input.method = "get_current_song"
  /\ rq.result.requests = <<"request", "auth", "request">>
  /\ rq.result.ok

(***************************************************************************)
(* The player session: create_session and close_session                    *)
(***************************************************************************)
\* a new ClientSession is created whether or not one is held
NeedsSessionMutAlways(s) == TRUE

\* monitor.py:39: "if not self.session"
NeedsSession(s) == IsNone(s)

\* YouTubeMusicMonitor.create_session (monitor.py:37-40): self.session and
\* the sessions created so far, after the call
create_session(s, all) ==
  IF NeedsSession(s)
  THEN [session |-> Some(Len(all) + 1), sessions |-> Append(all, 0)]
  ELSE [session |-> s, sessions |-> all]

\* close_session leaves self.session as it is
AfterCloseMutKeeps(s) == s

\* monitor.py:46: "self.session = None"
AfterClose(s) == None

\* YouTubeMusicMonitor.close_session (monitor.py:42-46)
close_session(s, all) ==
  IF ~IsNone(s)
  THEN [session |-> AfterClose(s), sessions |-> [all EXCEPT ![Val(s)] = @ + 1]]
  ELSE [session |-> s, sessions |-> all]

OpenSessions == {i \in 1..Len(sessions) : sessions[i] = 0}

(***************************************************************************)
(* The polling loop: YouTubeMusicMonitor.start_monitoring                  *)
(***************************************************************************)
\* the stored id compared with the raw video id instead of the derived id
TrackChangedMutRawId(stored_id, song) == stored_id # Some(song.id)

\* monitor.py:147-150: the derived id differs from the stored one
TrackChanged(stored_id, song) == stored_id # Some(TrackId(song))

\* the handler invoked whatever the classification says
DispatchMutAlways(result) == "handler"

\* monitor.py:162-167: the handler is awaited only for a natural transition
\* (the integration always installs one); a raised error goes to the loop's
\* "except Exception" (monitor.py:185-186); either way the loop sleeps next
Dispatch(result) == IF result = "natural" THEN "handler" ELSE "sleep"

Tick ==
  /\ \E dt \in TickSteps : now + dt <= MaxPollTime /\ now' = now + dt
  /\ UNCHANGED <<monitorVars, callVars, integrationVars, queueVars, breakVars>>

\* monitor.py:137-140
StartMonitoring ==
  /\ mpc = "idle"
  /\ monitor_is_running' = TRUE
  /\ mpc' = "loop"
  /\ UNCHANGED <<now, callVars, integrationVars, queueVars, breakVars, current_track_id, current_track_info, track_start_time,
                 session, sessions, access_token, old_track, old_start_time, iter, seen_change>>

\* monitor.py:378-381
StopMonitoring ==
  /\ monitor_is_running
  /\ monitor_is_running' = FALSE
  /\ UNCHANGED <<now, callVars, integrationVars, queueVars, breakVars, current_track_id, current_track_info, track_start_time,
                 session, sessions, access_token, mpc, old_track, old_start_time, iter,
                 seen_change>>

\* the loop goes on whatever the flag says
LoopContinuesMutAlways(flag) == TRUE

\* monitor.py:142: "while self.is_running"
LoopContinues(flag) == flag

\* monitor.py:142: the loop condition is false
LoopExit ==
  /\ mpc = "loop" /\ ~LoopContinues(monitor_is_running)
  /\ mpc' = "exited"
  /\ UNCHANGED <<now, callVars, integrationVars, queueVars, breakVars, current_track_id, current_track_info, track_start_time,
                 monitor_is_running, session, sessions, access_token, old_track,
                 old_start_time, iter, seen_change>>

\* what one iteration has done, for the claims
IterStart(song, classified, result) ==
  [state |-> "polled", polled |-> song, pre_id |-> current_track_id,
   pre_info |-> current_track_info, pre_start |-> track_start_time,
   poll_time |-> now, first |-> ~seen_change,
   classify_runs |-> classified, result |-> result, handler_calls |-> 0,
   query |-> "none", stopped |-> FALSE, handler_outcome |-> "none",
   requery |-> Missing]

\* the tracking state is never cleared
WasTrackingMutNever(stored_id) == FALSE

\* monitor.py:180: "if self.current_track_id is not None"
WasTracking(stored_id) == ~IsNone(stored_id)

\* the stored snapshot is left as it was first seen
MergedInfoMutKeepsFirst(info, song_info) == info

\* the stored snapshot is replaced by the poll's
MergedInfoMutReplaces(info, song_info) == Some(song_info)

\* monitor.py:169-176: the stored snapshot takes the position and the
\* playing flag of the poll; nothing is stored when no snapshot is held
MergedInfo(info, song_info) ==
  IF IsNone(info) THEN None
  ELSE Some([Val(info) EXCEPT
               !.current_time_seconds = song_info.current_time_seconds,
               !.is_playing = song_info.is_playing])

\* monitor.py:142-183: one poll, up to the re-query inside classification,
\* with the player's answers drawn from answers
PollWith(answers) ==
  /\ mpc = "loop" /\ LoopContinues(monitor_is_running)
  /\ \E ans \in answers :
       LET r == get_current_song(access_token, ans)
           Started(song, classified, result) ==
             [IterStart(song, classified, result) EXCEPT
                !.query = QueryOutcome(access_token, ans)]
       IN
       /\ session' = create_session(session, sessions).session
       /\ sessions' = create_session(session, sessions).sessions
       /\ access_token' = r.token
       /\ IF ~IsNone(r.song)
          THEN LET song_info == Val(r.song) IN
               IF TrackChanged(current_track_id, song_info)
               THEN /\ old_track' = current_track_info
                    /\ old_start_time' = track_start_time
                    /\ current_track_id' = Some(TrackId(song_info))
                    /\ current_track_info' = Some(song_info)
                    /\ track_start_time' = Some(now)
                    /\ seen_change' = TRUE
                    /\ IF NeedsRequery(current_track_info, track_start_time)
                       THEN /\ mpc' = "classify"
                            /\ iter' = Started(r.song, 0, "pending")
                       ELSE LET result == was_natural_transition(
                                   current_track_info, track_start_time, None, now)
                            IN /\ mpc' = Dispatch(result)
                               /\ iter' = Started(r.song, 1, result)
               ELSE /\ current_track_info' = MergedInfo(current_track_info, song_info)
                    /\ mpc' = "sleep"
                    /\ iter' = Started(r.song, 0, "none")
                    /\ UNCHANGED <<current_track_id, track_start_time, old_track,
                                   old_start_time, seen_change>>
          ELSE /\ IF WasTracking(current_track_id)
                  THEN current_track_id' = None /\ current_track_info' = None
                  ELSE UNCHANGED <<current_track_id, current_track_info>>
               /\ mpc' = "sleep"
               /\ iter' = [Started(None, 0, "none") EXCEPT
                             !.stopped = WasTracking(current_track_id)]
               /\ UNCHANGED <<track_start_time, old_track, old_start_time, seen_change>>
  /\ UNCHANGED <<now, callVars, integrationVars, queueVars, breakVars, monitor_is_running>>

Poll == PollWith(SongAnswers(access_token))

\* what the classification reads of the re-query's answer (monitor.py:205-211)
Requeried(song) ==
  IF IsNone(song) THEN None
  ELSE Some([id |-> Val(song).id,
             current_time_seconds |-> Val(song).current_time_seconds])

\* monitor.py:162 with 195-271: the re-query and the decision
ClassifyWith(answers) ==
  /\ mpc = "classify"
  /\ \E ans \in answers :
       LET r == get_current_song(access_token, ans)
           result == was_natural_transition(old_track, old_start_time, r.song, now)
       IN /\ session' = create_session(session, sessions).session
          /\ sessions' = create_session(session, sessions).sessions
          /\ access_token' = r.token
          /\ mpc' = Dispatch(result)
          /\ iter' = [iter EXCEPT !.classify_runs = @ + 1, !.result = result,
                                  !.requery = Requeried(r.song)]
  /\ UNCHANGED <<now, callVars, integrationVars, queueVars, breakVars, current_track_id, current_track_info, track_start_time,
                 monitor_is_running, old_track, old_start_time, seen_change>>

Classify == ClassifyWith(SongAnswers(access_token))

\* an error raised by the handler ends start_monitoring
AfterHandlerMutPropagates(outcome) ==
  IF outcome = "raised" THEN "exited" ELSE "sleep"

\* monitor.py:165 and 185-188: after the handler has returned, and after the
\* loop's "except Exception" has logged the error it raised, the loop sleeps
AfterHandler(outcome) == "sleep"

\* monitor.py:164-165: the handler runs and returns, or raises into the
\* loop's "except Exception"
Handler ==
  /\ mpc = "handler"
  /\ \E outcome \in {"returned", "raised"} :
       /\ iter' = [iter EXCEPT !.handler_calls = @ + 1,
                               !.handler_outcome = outcome]
       /\ mpc' = AfterHandler(outcome)
  /\ UNCHANGED <<now, callVars, integrationVars, queueVars, breakVars, current_track_id, current_track_info, track_start_time,
                 monitor_is_running, session, sessions, access_token, old_track,
                 old_start_time, seen_change>>

\* monitor.py:188
Sleep ==
  /\ mpc = "sleep"
  /\ mpc' = "loop"
  /\ iter' = [state |-> "none"]
  /\ old_track' = None
  /\ old_start_time' = None
  /\ UNCHANGED <<now, callVars, integrationVars, queueVars, breakVars, current_track_id, current_track_info, track_start_time,
                 monitor_is_running, session, sessions, access_token, seen_change>>

InitMonitorSpec ==
  /\ now = 0
  /\ InitMonitor
  /\ cl = [state |-> "idle"]
  /\ rq = [state |-> "idle"]
  /\ InitQueueWith(DefaultQueueConfig)
  /\ InitBreak
  /\ InitIntegration

NextMonitor ==
  \/ Tick \/ StartMonitoring \/ StopMonitoring \/ LoopExit
  \/ Poll \/ Classify \/ Handler \/ Sleep

SpecMonitor == InitMonitorSpec /\ [][NextMonitor]_vars

\* the event loop resumes the polling coroutine: a player query is answered
\* or times out, the handler returns or raises, and asyncio.sleep returns
FairSpecMonitor ==
  /\ SpecMonitor
  /\ WF_vars(Poll) /\ WF_vars(Classify) /\ WF_vars(Handler) /\ WF_vars(Sleep)

\* and the loop condition is evaluated when asyncio.sleep has returned
FairSpecStop == FairSpecMonitor /\ WF_vars(LoopExit)

(***************************************************************************)
(* The content queue: ContentQueue                                         *)
(***************************************************************************)
\* the queue's clock advances in steps drawn from QueueTickSteps (to an age
\* of exactly one minute, or one second more) and stops at MaxQueueTime
\* seconds; at most MaxGets get_next_content calls are made
QueueTickSteps == {60, 61}
MaxQueueTime == 61
MaxGets == 2
\* at most MaxFailures generation calls fail
MaxFailures == 1
RefillInterval == 30

\* the settings the queue is explored with: the defaults, and a capacity
\* below the sum of the minimums with items that expire after one minute
QueueConfigs ==
  { DefaultQueueConfig,
    [max_size |-> 2, min_ads |-> 2, min_conversations |-> 1, max_age_minutes |-> 1] }

\* ContentItem.__init__: created_at is the time of construction
ContentItem(id, content_type, created) ==
  [id |-> id, content_type |-> content_type, created_at |-> created]

\* an item never counts as too old
is_expired_MutNever(item, max_age, now_) == FALSE

\* ContentItem.is_expired
is_expired(item, max_age, now_) == now_ - item.created_at > max_age * 60

\* ContentQueue._remove_expired_items: the queue without its expired items
RemoveExpired(q, max_age, now_) ==
  LET Fresh(item) == ~is_expired(item, max_age, now_) IN SelectSeq(q, Fresh)

CountType(q, content_type) ==
  Cardinality({i \in 1..Len(q) : q[i].content_type = content_type})

\* the deficit is taken to be the minimum, whatever the queue holds
NeededMutIgnoresCount(minimum, count) == minimum

\* max(0, minimum - count)
Needed(minimum, count) == IF minimum - count > 0 THEN minimum - count ELSE 0

\* the oldest item of the queue is served, whatever was served last
BestNextIndexMutFifo(q, last) == 1

\* ContentQueue._get_best_next_item on a non-empty queue: the index chosen
BestNextIndex(q, last) ==
  LET preferred == IF last = Some("ad") THEN "conversation" ELSE "ad"
      wanted == {i \in 1..Len(q) : q[i].content_type = preferred}
      newest == {i \in 1..Len(q) :
                   \A j \in 1..Len(q) : q[j].created_at <= q[i].created_at}
      Min(S) == CHOOSE i \in S : \A j \in S : i <= j
  IN IF ~IsNone(last) /\ wanted # {} THEN Min(wanted) ELSE Min(newest)

\* the served item stays in the queue
RemoveAtMutKeep(q, i) == q

\* deque.remove(item)
RemoveAt(q, i) == SubSeq(q, 1, i - 1) \o SubSeq(q, i + 1, Len(q))

\* no capacity check before a generation call
CapacityReachedMutNever(q, max_size) == FALSE

\* content_queue.py:132 and 140
CapacityReached(q, max_size) == Len(q) >= max_size

\* the refill check looks at the ads only
BelowMinimumMutAdsOnly(q) == CountType(q, "ad") < min_ads

\* content_queue.py:223-226
BelowMinimum(q) ==
  \/ CountType(q, "ad") < min_ads
  \/ CountType(q, "conversation") < min_conversations

\* fill_queue without its lock
LockFreeMutNoLock == TRUE

\* asyncio.Lock: generation_lock can be taken when no run holds it
LockFree == fill = NoFill

\* Where a fill_queue run goes next with the queue as it is: the i-th
\* generation call of a loop, or the end of the function
\* (content_queue.py:130-145)
FillNext(q, f, phase, i) ==
  IF phase = "ads" /\ i < f.ads_needed /\ ~CapacityReached(q, max_queue_size)
  THEN [f EXCEPT !.pc = "gen_ad", !.i = i, !.ad_calls = @ + 1]
  ELSE LET j == IF phase = "ads" THEN 0 ELSE i IN
       IF j < f.conversations_needed /\ ~CapacityReached(q, max_queue_size)
       THEN [f EXCEPT !.pc = "gen_conversation", !.i = j,
                      !.conversation_calls = @ + 1]
       ELSE [f EXCEPT !.pc = "done"]

\* The fill_queue run of owner takes the lock: eviction, the counts, and the
\* run up to its first generation call (content_queue.py:120-135)
FillEntered(owner) ==
  LET q == RemoveExpired(queue, max_age_minutes, now)
      f == [owner |-> owner, pc |-> "counting", i |-> 0,
            ads_needed |-> Needed(min_ads, CountType(q, "ad")),
            conversations_needed |->
              Needed(min_conversations, CountType(q, "conversation")),
            entry |-> q, entered_at |-> now,
            ad_calls |-> 0, conversation_calls |-> 0,
            failed_ads |-> 0, failed_conversations |-> 0]
  IN [q |-> q, f |-> FillNext(q, f, "ads", 0)]

\* The state after a fill_queue run has moved to f with the queue q, the
\* other runs inside the lock being rest: at its end the lock is released,
\* and start(), when it made the run, creates the background task and
\* returns (content_queue.py:66-68)
FillSettles(q, f, rest) ==
  /\ queue' = q
  /\ IF f.pc = "done"
     THEN /\ fill' = rest
          /\ last_fill' = [f EXCEPT !.pc = "done"]
          /\ IF f.owner = "start"
             THEN refill_task' = "created" /\ cpc' = "idle"
             ELSE UNCHANGED <<refill_task, cpc>>
     ELSE /\ fill' = Append(rest, f)
          /\ cpc' = IF f.owner = "start" THEN "start_fill" ELSE cpc
          /\ UNCHANGED <<refill_task, last_fill>>

TickQueue ==
  /\ \E dt \in QueueTickSteps : now + dt <= MaxQueueTime /\ now' = now + dt
  /\ UNCHANGED <<monitorVars, callVars, integrationVars, queueVars, breakVars>>

\* start() goes through its fill and its task creation whatever is_running is
StartIsNoOpMutNever == FALSE

\* content_queue.py:57-58: "if self.is_running: return"
StartIsNoOp == queue_is_running

\* ContentQueue.start (content_queue.py:55-64); a call made while running
\* returns at once
ContentQueueStart ==
  /\ cpc = "idle"
  /\ IF StartIsNoOp
     THEN UNCHANGED <<queue, fill, last_fill, refill_task, cpc, queue_is_running>>
     ELSE /\ queue_is_running' = TRUE
          /\ IF LockFree
             THEN FillSettles(FillEntered("start").q, FillEntered("start").f, fill)
             ELSE /\ cpc' = "start_wait_lock"
                  /\ UNCHANGED <<queue, fill, last_fill, refill_task>>
  /\ UNCHANGED <<max_queue_size, min_ads, min_conversations,
                 max_age_minutes, last_served_type, refill_wake_at, fill_waiters,
                 trigger_tasks, next_id, failures, served, last_get>>

\* start() called on the queue by itself
CallStart ==
  /\ ContentQueueStart
  /\ UNCHANGED <<now, monitorVars, callVars, integrationVars, breakVars>>

\* start()'s fill_queue obtains the lock it waited for
StartFillEnters ==
  /\ cpc = "start_wait_lock" /\ LockFree
  /\ FillSettles(FillEntered("start").q, FillEntered("start").f, fill)
  /\ UNCHANGED <<now, monitorVars, callVars, integrationVars, breakVars, max_queue_size, min_ads, min_conversations,
                 max_age_minutes, last_served_type, queue_is_running, refill_wake_at,
                 fill_waiters, trigger_tasks, next_id, failures, served, last_get>>

\* a spawned fill_queue task obtains the lock
TaskFillEnters ==
  /\ fill_waiters > 0 /\ LockFree
  /\ fill_waiters' = fill_waiters - 1
  /\ FillSettles(FillEntered("task").q, FillEntered("task").f, fill)
  /\ UNCHANGED <<now, monitorVars, callVars, integrationVars, breakVars, max_queue_size, min_ads, min_conversations,
                 max_age_minutes, last_served_type, queue_is_running, refill_wake_at,
                 trigger_tasks, next_id, failures, served, last_get>>

\* a failed generation call ends the run
FillAfterCallMutAbort(q, f, ok) ==
  IF ok
  THEN FillNext(q, f, IF f.pc = "gen_ad" THEN "ads" ELSE "conversations", f.i + 1)
  ELSE [f EXCEPT !.pc = "done"]

\* content_queue.py:147-183 with 131-143: _generate_and_queue_ad and
\* _generate_and_queue_conversation log a failure and return, and the loop
\* of fill_queue goes on to its next iteration
FillAfterCall(q, f, ok) ==
  FillNext(q, f, IF f.pc = "gen_ad" THEN "ads" ELSE "conversations", f.i + 1)

\* _generate_and_queue_ad / _generate_and_queue_conversation: the generation
\* call of the run that holds the lock returns content, or fails (returns
\* None or raises); the run goes on to its next call or to its end
GenerationReturns ==
  /\ \E k \in 1..Len(fill) :
     \E ok \in {TRUE} \cup {FALSE : x \in {1} \cap 1..(MaxFailures - failures)} :
       LET run == fill[k]
           is_ad == run.pc = "gen_ad"
           content_type == IF is_ad THEN "ad" ELSE "conversation"
           q == IF ok THEN Append(queue, ContentItem(next_id, content_type, now))
                ELSE queue
           f == IF ok THEN run
                ELSE IF is_ad THEN [run EXCEPT !.failed_ads = @ + 1]
                ELSE [run EXCEPT !.failed_conversations = @ + 1]
       IN /\ next_id' = IF ok THEN next_id + 1 ELSE next_id
          /\ failures' = IF ok THEN failures ELSE failures + 1
          /\ FillSettles(q, FillAfterCall(q, f, ok), RemoveAt(fill, k))
  /\ UNCHANGED <<now, monitorVars, callVars, integrationVars, breakVars, max_queue_size, min_ads, min_conversations,
                 max_age_minutes, last_served_type, queue_is_running, refill_wake_at,
                 fill_waiters, trigger_tasks, served, last_get>>

\* no refill check is launched when an item is served
SpawnTriggerMutNone(tasks) == tasks

\* content_queue.py:99: asyncio.create_task(self._trigger_refill()) adds a
\* task that has not run yet
SpawnTrigger(tasks) == tasks + 1

\* ContentQueue.get_next_content up to its return or, on an empty queue, up
\* to the emergency generation call (content_queue.py:81-101)
ContentQueueGetNext ==
  /\ cpc = "idle"
  /\ LET q == RemoveExpired(queue, max_age_minutes, now)
         evicted == {queue[i] : i \in 1..Len(queue)} \ {q[i] : i \in 1..Len(q)}
     IN IF q = <<>>
        THEN /\ queue' = q
             /\ cpc' = "emergency"
             /\ last_get' = [state |-> "emergency", time |-> now, evicted |-> evicted,
                             before |-> q, calls |-> 0]
             /\ UNCHANGED <<last_served_type, trigger_tasks, served>>
        ELSE LET i == BestNextIndex(q, last_served_type) IN
             /\ queue' = RemoveAt(q, i)
             /\ last_served_type' = Some(q[i].content_type)
             /\ trigger_tasks' = SpawnTrigger(trigger_tasks)
             /\ served' = Append(served, q[i].id)
             /\ last_get' = [state |-> "queue", time |-> now, evicted |-> evicted,
                             item |-> q[i], before |-> q,
                             last |-> last_served_type]
             /\ UNCHANGED cpc
  /\ UNCHANGED <<max_queue_size, min_ads, min_conversations,
                 max_age_minutes, queue_is_running, refill_task, refill_wake_at,
                 fill, last_fill, fill_waiters, next_id, failures>>

\* get_next_content called on the queue by itself
GetNextContent ==
  /\ Len(served) < MaxGets
  /\ ContentQueueGetNext
  /\ UNCHANGED <<now, monitorVars, callVars, integrationVars, breakVars>>

\* a failed emergency generation call is made again
AfterEmergencyFailureMutRetry == "emergency"

\* content_queue.py:208-215: after a failed emergency generation call the
\* function returns None to get_next_content, which returns it to its caller
AfterEmergencyFailure == "idle"

\* the emergency item alternates with the type served last
EmergencyTypeMutAlternates(last) ==
  IF last = Some("ad") THEN "conversation" ELSE "ad"

\* content_queue.py:199-206: the emergency content is generated as an ad and
\* wrapped as ContentItem("ad", ...)
EmergencyType(last) == "ad"

\* ContentQueue._generate_emergency_content: its generation call returns; a
\* fresh ad is returned, or None when the call failed or raised
\* (content_queue.py:194-215)
ContentQueueEmergencyReturns ==
  /\ cpc = "emergency"
  /\ \E ok \in {TRUE} \cup {FALSE : x \in {1} \cap 1..(MaxFailures - failures)} :
       IF ok
       THEN /\ served' = Append(served, next_id)
            /\ next_id' = next_id + 1
            /\ cpc' = "idle"
            /\ UNCHANGED failures
            /\ last_get' = [state |-> "emergency_item", time |-> last_get.time,
                            evicted |-> last_get.evicted,
                            before |-> last_get.before,
                            calls |-> last_get.calls + 1,
                            item |-> ContentItem(next_id,
                                                EmergencyType(last_served_type), now)]
       ELSE /\ cpc' = AfterEmergencyFailure
            /\ last_get' = [state |-> IF AfterEmergencyFailure = "idle"
                                      THEN "emergency_none" ELSE "emergency",
                            time |-> last_get.time,
                            evicted |-> last_get.evicted,
                            before |-> last_get.before,
                            calls |-> last_get.calls + 1]
            /\ failures' = failures + 1
            /\ UNCHANGED <<served, next_id>>
  /\ UNCHANGED <<max_queue_size, min_ads, min_conversations,
                 max_age_minutes, queue, last_served_type, queue_is_running,
                 refill_task, refill_wake_at, fill, last_fill, fill_waiters, trigger_tasks>>

\* the emergency generation of a get_next_content call made on the queue by
\* itself
EmergencyReturns ==
  /\ ContentQueueEmergencyReturns
  /\ UNCHANGED <<now, monitorVars, callVars, integrationVars, breakVars>>

\* ContentQueue._trigger_refill run as a task of its own (content_queue.py:217-227)
TriggerRuns ==
  /\ trigger_tasks > 0
  /\ trigger_tasks' = trigger_tasks - 1
  /\ fill_waiters' = IF queue_is_running /\ BelowMinimum(queue)
                     THEN fill_waiters + 1 ELSE fill_waiters
  /\ UNCHANGED <<now, monitorVars, callVars, integrationVars, breakVars, max_queue_size, min_ads, min_conversations,
                 max_age_minutes, queue, last_served_type, queue_is_running,
                 refill_task, refill_wake_at, fill, last_fill, cpc, next_id, failures, served,
                 last_get>>

\* ContentQueue._background_refill_loop starts running: the loop condition,
\* then asyncio.sleep(30) (content_queue.py:231-233)
RefillTaskRuns ==
  /\ refill_task = "created"
  /\ IF queue_is_running
     THEN refill_task' = "sleeping" /\ refill_wake_at' = now + RefillInterval
     ELSE refill_task' = "done" /\ UNCHANGED refill_wake_at
  /\ UNCHANGED <<now, monitorVars, callVars, integrationVars, breakVars, max_queue_size, min_ads, min_conversations,
                 max_age_minutes, queue, last_served_type, queue_is_running, fill, last_fill,
                 fill_waiters, trigger_tasks, cpc, next_id, failures, served, last_get>>

\* the sleep of the background loop is over: the refill check, and the next
\* sleep (content_queue.py:233-238)
RefillTaskWakes ==
  /\ refill_task = "sleeping" /\ now >= refill_wake_at
  /\ IF queue_is_running
     THEN /\ fill_waiters' = IF BelowMinimum(queue)
                             THEN fill_waiters + 1 ELSE fill_waiters
          /\ refill_wake_at' = now + RefillInterval
          /\ UNCHANGED refill_task
     ELSE /\ refill_task' = "done"
          /\ UNCHANGED <<fill_waiters, refill_wake_at>>
  /\ UNCHANGED <<now, monitorVars, callVars, integrationVars, breakVars, max_queue_size, min_ads, min_conversations,
                 max_age_minutes, queue, last_served_type, queue_is_running, fill, last_fill,
                 trigger_tasks, cpc, next_id, failures, served, last_get>>

\* stop() cancels the task and returns without awaiting it
AfterCancelMutNoAwait == "idle"

\* content_queue.py:74-78: after cancel() stop() awaits the task
AfterCancel == "stop_wait"

\* ContentQueue.stop up to "await self.refill_task" (content_queue.py:70-76);
\* a task that has ended, or none, is awaited without suspension
ContentQueueStop ==
  /\ cpc = "idle"
  /\ queue_is_running' = FALSE
  /\ IF refill_task \in {"created", "sleeping"}
     THEN refill_task' = "cancelling" /\ cpc' = AfterCancel
     ELSE UNCHANGED <<refill_task, cpc>>
  /\ UNCHANGED <<max_queue_size, min_ads, min_conversations,
                 max_age_minutes, queue, last_served_type, refill_wake_at, fill, last_fill,
                 fill_waiters, trigger_tasks, next_id, failures, served, last_get>>

\* stop() called on the queue by itself
CallStop ==
  /\ ContentQueueStop
  /\ UNCHANGED <<now, monitorVars, callVars, integrationVars, breakVars>>

\* the cancelled background task ends (content_queue.py:240-241)
RefillTaskCancelled ==
  /\ refill_task = "cancelling"
  /\ refill_task' = "done"
  /\ UNCHANGED <<now, monitorVars, callVars, integrationVars, breakVars, max_queue_size, min_ads, min_conversations,
                 max_age_minutes, queue, last_served_type, queue_is_running,
                 refill_wake_at, fill, last_fill, fill_waiters, trigger_tasks, cpc, next_id,
                 failures,
                 served, last_get>>

\* stop() returns once the background task has ended (content_queue.py:76-79)
StopReturns ==
  /\ cpc = "stop_wait" /\ refill_task = "done"
  /\ cpc' = "idle"
  /\ UNCHANGED <<now, monitorVars, callVars, integrationVars, breakVars, max_queue_size, min_ads, min_conversations,
                 max_age_minutes, queue, last_served_type, queue_is_running,
                 refill_task, refill_wake_at, fill, last_fill, fill_waiters,
                 trigger_tasks, next_id, failures, served, last_get>>

InitQueueSpec ==
  /\ now = 0
  /\ InitMonitor
  /\ cl = [state |-> "idle"]
  /\ rq = [state |-> "idle"]
  /\ \E c \in QueueConfigs : InitQueueWith(c)
  /\ InitBreak
  /\ InitIntegration

NextQueue ==
  \/ TickQueue \/ CallStart \/ StartFillEnters \/ TaskFillEnters
  \/ GenerationReturns \/ GetNextContent \/ EmergencyReturns \/ TriggerRuns
  \/ RefillTaskRuns \/ RefillTaskWakes \/ CallStop \/ RefillTaskCancelled
  \/ StopReturns

SpecQueue == InitQueueSpec /\ [][NextQueue]_vars

\* the event loop runs a cancelled task, and a caller whose awaited task
\* has ended
FairSpecQueue ==
  SpecQueue /\ WF_vars(RefillTaskCancelled) /\ WF_vars(StopReturns)

\* the event loop runs every task that is ready: the refill checks, the
\* fill_queue runs waiting for the lock, the background loop; generation
\* calls return; and time passes
FairSpecRefill ==
  /\ SpecQueue
  /\ WF_vars(TriggerRuns) /\ WF_vars(TaskFillEnters) /\ WF_vars(StartFillEnters)
  /\ WF_vars(GenerationReturns) /\ WF_vars(EmergencyReturns)
  /\ WF_vars(RefillTaskRuns) /\ WF_vars(RefillTaskWakes) /\ WF_vars(TickQueue)

(***************************************************************************)
(* The content break: ContentGenerator.execute_immediate_content_break     *)
(***************************************************************************)
FallbackVolume == 80
MinimumWait == 8
WordsPerMinute == 150

\* what get_volume can return: None on failure, or the player's volume
VolumeAnswers == {None, Some(35), Some(80)}
\* the audio_url of the content: a local /audio/ file that exists, one that
\* does not, a reference that is no /audio/ path, or a value that is no string
AudioUrls == {"local_present", "local_missing", "not_local", "malformed"}
\* the content text: its number of words, or None for a value that is no string
ContentWords == {Some(0), Some(20), Some(25), Some(150), None}

BreakInputs ==
  [ enabled : BOOLEAN, play_audio : BOOLEAN, audio_url : AudioUrls,
    words : ContentWords ]

\* max(8, (words / 150) * 60), for word counts that are multiples of 5
EstimatedDuration(words) ==
  LET spoken == (words * 60) \div WordsPerMinute
  IN IF spoken > MinimumWait THEN spoken ELSE MinimumWait

NoBreak == [state |-> "none"]

Count(calls, name) == Cardinality({i \in 1..Len(calls) : calls[i] = name})

\* the error of a step is not followed by the emergency resume
AfterRaiseMutNoRecovery == "done"

\* content_generator.py:281-288: an error raised by a step leads to the
\* emergency resume
AfterRaise == "emergency"

\* content_generator.py:238-268: the step after the two pause calls, for the
\* inputs of the break: where the break goes and how the step ended
PlayStep(b) ==
  IF b.play_audio
  THEN IF IsNone(b.words) \/ b.audio_url = "malformed"
       THEN [pc |-> AfterRaise, outcome |-> "raised"]
       ELSE IF b.audio_url = "not_local"
       THEN [pc |-> "resume", outcome |-> "not_local"]
       ELSE IF b.audio_url = "local_present"
       THEN [pc |-> "playing", outcome |-> "playing"]
       ELSE [pc |-> "waiting", outcome |-> "missing"]
  ELSE IF IsNone(b.words)
       THEN [pc |-> AfterRaise, outcome |-> "raised"]
       ELSE [pc |-> "waiting", outcome |-> "disabled"]

\* content_generator.py:213-219: the call with the inputs b; a disabled
\* break returns at once
BreakBegins(b) ==
  /\ bpc = "idle"
  /\ brk' = [input |-> b, answer |-> Missing, volume |-> None,
             pause_ok |-> <<>>, outcome |-> "none",
             played_at |-> None, waited |-> None, recovery |-> "none"]
  /\ bpc' = IF b.enabled THEN "volume" ELSE "done"

\* execute_immediate_content_break called by itself
BreakCall ==
  /\ \E b \in BreakInputs : BreakBegins(b)
  /\ player_calls' = <<>>
  /\ UNCHANGED <<now, monitorVars, callVars, integrationVars, queueVars>>

\* the volume query's answer is used as it is
VolumeOrFallbackMutNoFallback(v) == v

\* content_generator.py:224-228: the captured volume, 80 when the query
\* returned None
VolumeOrFallback(v) == IF IsNone(v) THEN Some(FallbackVolume) ELSE v

\* content_generator.py:222-228
BreakGetVolume ==
  /\ bpc = "volume"
  /\ \E v \in VolumeAnswers :
       brk' = [brk EXCEPT !.answer = v, !.volume = VolumeOrFallback(v)]
  /\ player_calls' = Append(player_calls, "get_volume")
  /\ bpc' = "pause1"
  /\ UNCHANGED <<now, monitorVars, callVars, integrationVars, queueVars>>

\* a pause call that reports failure ends the break
AfterPauseMutAbort(success, next) == IF success THEN next ELSE "done"

\* content_generator.py:232-235: the result of pause_playback is not looked at
AfterPause(success, next) == next

\* the call that begins when the play step goes to pc
StepCalls(pc) ==
  IF pc = "playing" THEN <<"play">>
  ELSE IF pc = "waiting" THEN <<"wait">> ELSE <<>>

\* content_generator.py:232-233: the first pause, whatever it returns
BreakPause1 ==
  /\ bpc = "pause1"
  /\ \E success \in BOOLEAN :
       /\ brk' = [brk EXCEPT !.pause_ok = Append(@, success)]
       /\ bpc' = AfterPause(success, "pause2")
  /\ player_calls' = Append(player_calls, "pause")
  /\ UNCHANGED <<now, monitorVars, callVars, integrationVars, queueVars>>

\* content_generator.py:234-268: the second pause, then the play step up to
\* its first await
BreakPause2 ==
  /\ bpc = "pause2"
  /\ \E success \in BOOLEAN :
     LET step == PlayStep(brk.input) IN
       /\ bpc' = AfterPause(success, step.pc)
       /\ player_calls' = Append(player_calls, "pause") \o StepCalls(step.pc)
       /\ brk' = [brk EXCEPT
            !.pause_ok = Append(@, success),
            !.outcome = step.outcome,
            !.played_at = IF step.pc = "playing" THEN brk.volume ELSE None,
            !.waited = IF step.pc = "waiting"
                       THEN Some(EstimatedDuration(Val(brk.input.words)))
                       ELSE None]
  /\ UNCHANGED <<now, monitorVars, callVars, integrationVars, queueVars>>

\* a playback that failed is handled as an error of the break
AfterPlaybackMutRaise(success) == IF success THEN "resume" ELSE AfterRaise

\* content_generator.py:250-257: after play_audio_file has returned True the
\* break goes on to its resume, after False to the estimated wait
AfterPlayback(success) == IF success THEN "resume" ELSE "waiting"

\* content_generator.py:250-257: play_audio_file returns (it never raises,
\* lines 350-352); a failed playback is followed by the estimated wait
BreakPlayReturns ==
  /\ bpc = "playing"
  /\ \E success \in BOOLEAN :
       LET next == AfterPlayback(success) IN
       /\ bpc' = next
       /\ brk' = [brk EXCEPT
            !.outcome = IF success THEN "played" ELSE "failed",
            !.waited = IF next = "waiting"
                       THEN Some(EstimatedDuration(Val(brk.input.words)))
                       ELSE @]
       /\ player_calls' = player_calls \o StepCalls(next)
  /\ UNCHANGED <<now, monitorVars, callVars, integrationVars, queueVars>>

\* asyncio.sleep(estimated_duration) is over
BreakWaitOver ==
  /\ bpc = "waiting"
  /\ bpc' = "resume"
  /\ UNCHANGED <<now, monitorVars, callVars, integrationVars, queueVars, brk, player_calls>>

\* content_generator.py:270-279: the resume, whatever it returns
BreakResume ==
  /\ bpc = "resume"
  /\ \E success \in BOOLEAN : player_calls' = Append(player_calls, "resume")
  /\ bpc' = "done"
  /\ UNCHANGED <<now, monitorVars, callVars, integrationVars, queueVars, brk>>

\* how a resume_playback call can end: it returns True or False, or the call
\* itself raises
ResumeOutcomes == {"ok", "failed", "raised"}

\* an error of the emergency resume leaves the break
AfterEmergencyResumeMutPropagates(outcome) ==
  IF outcome = "raised" THEN "raised" ELSE "done"

\* content_generator.py:284-288: the result of the emergency resume is not
\* looked at, and the bare "except:" swallows an error it raises
AfterEmergencyResume(outcome) == "done"

\* content_generator.py:281-288: the emergency resume
BreakEmergencyResume ==
  /\ bpc = "emergency"
  /\ \E outcome \in ResumeOutcomes :
       /\ brk' = [brk EXCEPT !.recovery = outcome]
       /\ bpc' = AfterEmergencyResume(outcome)
  /\ player_calls' = Append(player_calls, "resume")
  /\ UNCHANGED <<now, monitorVars, callVars, integrationVars, queueVars>>

\* the break has returned to its caller
BreakReturns ==
  /\ bpc = "done"
  /\ bpc' = "idle"
  /\ brk' = NoBreak
  /\ player_calls' = <<>>
  /\ UNCHANGED <<now, monitorVars, callVars, integrationVars, queueVars>>

InitBreakSpec ==
  /\ now = 0
  /\ InitMonitor
  /\ cl = [state |-> "idle"]
  /\ rq = [state |-> "idle"]
  /\ InitQueueWith(DefaultQueueConfig)
  /\ InitBreak
  /\ InitIntegration

NextBreak ==
  \/ BreakCall \/ BreakGetVolume \/ BreakPause1 \/ BreakPause2
  \/ BreakPlayReturns \/ BreakWaitOver \/ BreakResume \/ BreakEmergencyResume
  \/ BreakReturns

SpecBreak == InitBreakSpec /\ [][NextBreak]_vars

(***************************************************************************)
(* The integration: YouTubeMusicIntegration.start around the polling loop  *)
(***************************************************************************)
\* start() is called at most MaxStarts times
MaxStarts == 2

\* the answers the player gives while the integration is explored: two
\* tracks 30 seconds before their end, nothing playing, or an error status
IntegrationSongs ==
  { d \in RawSongs : /\ d.title = "t1" /\ d.songDuration = Some(40)
                     /\ d.elapsedSeconds = Some(10) /\ d.isPaused = Some(FALSE) }
IntegrationAnswers(token) ==
  { a \in SongAnswers(token) :
      /\ a.first.status # 401
      /\ a.first.status = 200 => a.first.data \in IntegrationSongs }

\* start() up to the first suspension of content_queue.start()
\* (youtube_music_integration.py:83-91)
IntegrationStart ==
  /\ ipc \in {"idle", "exited"} /\ starts < MaxStarts
  /\ ipc' = "queue_start"
  /\ starts' = starts + 1
  /\ ContentQueueStart
  /\ UNCHANGED <<now, monitorVars, callVars, hnd, breakVars>>

\* content_queue.start() has returned and start_monitoring begins
\* (youtube_music_integration.py:94 with monitor.py:137-140)
IntegrationMonitors ==
  /\ ipc = "queue_start" /\ cpc = "idle"
  /\ ipc' = "monitoring"
  /\ monitor_is_running' = TRUE
  /\ mpc' = "loop"
  /\ UNCHANGED <<now, callVars, starts, hnd, queueVars, breakVars, current_track_id,
                 current_track_info, track_start_time, session, sessions,
                 access_token, old_track, old_start_time, iter, seen_change>>

IntegrationPoll == ipc = "monitoring" /\ PollWith(IntegrationAnswers(access_token))
IntegrationClassify == ipc = "monitoring" /\ ClassifyWith(IntegrationAnswers(access_token))

\* the loop condition is false, start_monitoring returns, and the finally
\* block calls content_queue.stop() (monitor.py:142,
\* youtube_music_integration.py:95-96)
IntegrationLoopExits ==
  /\ ipc = "monitoring" /\ mpc = "loop" /\ ~monitor_is_running
  /\ mpc' = "exited"
  /\ ipc' = "queue_stop"
  /\ ContentQueueStop
  /\ UNCHANGED <<now, callVars, starts, hnd, breakVars, current_track_id,
                 current_track_info, track_start_time, monitor_is_running, session,
                 sessions, access_token, old_track, old_start_time, iter, seen_change>>

\* An error that "except Exception" does not catch (a cancellation, a
\* KeyboardInterrupt) arrives while start() is suspended in its try block:
\* in the initial fill of content_queue.start(), whose lock is released and
\* whose generation call is abandoned, or in start_monitoring, inside a
\* player query (the session exists by then, monitor.py:74), the handler or
\* asyncio.sleep.  The finally block runs (youtube_music_integration.py:95-96).
IntegrationInterrupted ==
  \/ /\ ipc = "queue_start" /\ cpc \in {"start_fill", "start_wait_lock"}
     /\ ipc' = "queue_stop"
     /\ cpc' = "idle"
     /\ queue_is_running' = FALSE
     /\ fill' = SelectSeq(fill, LAMBDA f : f.owner # "start")
     /\ UNCHANGED <<now, monitorVars, callVars, starts, hnd, breakVars, max_queue_size,
                    min_ads, min_conversations, max_age_minutes, queue,
                    last_served_type, refill_task, refill_wake_at, last_fill,
                    fill_waiters, trigger_tasks, next_id, failures, served, last_get>>
  \/ /\ ipc = "monitoring"
     /\ \/ mpc = "loop" /\ monitor_is_running
        \/ mpc \in {"classify", "handler", "sleep"}
     /\ LET in_query == mpc \in {"loop", "classify"}
            s == IF in_query THEN create_session(session, sessions)
                 ELSE [session |-> session, sessions |-> sessions]
        IN session' = s.session /\ sessions' = s.sessions
     /\ mpc' = "exited"
     /\ iter' = [state |-> "none"]
     /\ old_track' = None
     /\ old_start_time' = None
     /\ ipc' = "queue_stop"
     /\ ContentQueueStop
     /\ UNCHANGED <<now, callVars, starts, hnd, breakVars, current_track_id,
                    current_track_info, track_start_time, monitor_is_running,
                    access_token, seen_change>>

\* content_queue.stop() has returned; close_session, and start() exits
\* (youtube_music_integration.py:97 with monitor.py:42-46)
IntegrationCloses ==
  /\ ipc = "queue_stop" /\ cpc = "idle"
  /\ session' = close_session(session, sessions).session
  /\ sessions' = close_session(session, sessions).sessions
  /\ ipc' = "exited"
  /\ UNCHANGED <<now, callVars, starts, hnd, queueVars, breakVars, current_track_id,
                 current_track_info, track_start_time, monitor_is_running,
                 access_token, mpc, old_track, old_start_time, iter, seen_change>>

InitLifecycle ==
  /\ now = 0
  /\ InitMonitor
  /\ cl = [state |-> "idle"]
  /\ rq = [state |-> "idle"]
  /\ InitQueueWith(DefaultQueueConfig)
  /\ InitBreak
  /\ InitIntegration

NextLifecycle ==
  \/ IntegrationStart \/ GenerationReturns \/ RefillTaskRuns
  \/ IntegrationMonitors \/ IntegrationPoll \/ IntegrationClassify
  \/ Handler \/ Sleep \/ StopMonitoring
  \/ IntegrationLoopExits \/ IntegrationInterrupted
  \/ RefillTaskCancelled \/ StopReturns \/ IntegrationCloses

SpecLifecycle == InitLifecycle /\ [][NextLifecycle]_vars

(***************************************************************************)
(* Claims about the player session (checked under SpecLifecycle)           *)
(***************************************************************************)
\* start() has exited, normally or by error
StartExited == ipc = "exited"

\* the step is a call of close_session
ClosesStep == ipc = "queue_stop" /\ ipc' = "exited"

\* the step creates a ClientSession
CreatesStep == Len(sessions') > Len(sessions)

C27_Step ==
  /\ CreatesStep =>
       /\ IsNone(session) /\ mpc \in {"loop", "classify"}
       /\ sessions' = Append(sessions, 0)
       /\ session' = Some(Len(sessions'))
  /\ (IsNone(session) /\ ~IsNone(session')) => CreatesStep
  /\ ClosesStep =>
       IF IsNone(session) THEN sessions' = sessions /\ session' = session
       ELSE /\ sessions[Val(session)] = 0
            /\ sessions' = [sessions EXCEPT ![Val(session)] = 1]
            /\ IsNone(session')
  /\ ~ClosesStep => \A i \in 1..Len(sessions) : sessions'[i] = sessions[i]

C27_State ==
  /\ (starts = 0 \/ (starts = 1 /\ ipc = "queue_start")) => sessions = <<>>
  /\ Cardinality(OpenSessions) <= 1
  /\ OpenSessions = (IF IsNone(session) THEN {} ELSE {Val(session)})
  /\ \A i \in 1..Len(sessions) : sessions[i] <= 1
  /\ StartExited =>
       /\ ~queue_is_running
       /\ refill_task \in {"none", "done"}
       /\ IsNone(session)
       /\ \A i \in 1..Len(sessions) : sessions[i] = 1

\* C27: the monitor's session is created only by a player query made while
\* none is held (not at construction, not by start()), at most one session is
\* open at any time and it is the one the monitor holds; close_session closes
\* the held session exactly once and changes nothing when none is held; when
\* start() has exited, normally or by error, the queue is stopped with its
\* background task ended and every session created so far has been closed
\* exactly once; a query made after that creates a session of its own.
C27_SessionScoped == [][C27_Step]_vars /\ []C27_State

\* a second run of start() holds a fresh session while the first run's
\* session is closed
C27_Witness ==
  /\ starts = 2 /\ ipc = "monitoring"
  /\ Len(sessions) = 2 /\ sessions[1] = 1 /\ sessions[2] = 0
  /\ session = Some(2)

\* start() has exited by an error before any player query: close_session
\* had nothing to close
C27_ClosedNothing == StartExited /\ sessions = <<>> /\ queue = <<>>

(***************************************************************************)
(* The integration: the polling loop with handle_song_switch as its handler *)
(***************************************************************************)
\* at most MaxDispatches natural transitions are dispatched
MaxDispatches == 2

\* the settings of the queue while the handler is explored: room for one
\* item, so that the second dispatch can find the queue empty
IntegrationQueueConfig ==
  [max_size |-> 1, min_ads |-> 1, min_conversations |-> 1, max_age_minutes |-> 30]

\* the breaks the handler is explored with: a playable local file, a
\* reference that is no /audio/ path, a content text that is no string, and
\* a disabled break
IntegrationBreakInputs ==
  { b \in BreakInputs :
      /\ b.play_audio
      /\ \/ b.enabled /\ b.words = Some(20) /\ b.audio_url \in {"local_present", "not_local"}
         \/ b.enabled /\ b.words = None /\ b.audio_url = "local_present"
         \/ ~b.enabled /\ b.words = Some(20) /\ b.audio_url = "local_present" }

\* the fields of the monitor a handler step leaves alone
monitorRest ==
  <<current_track_id, current_track_info, track_start_time, monitor_is_running,
    session, sessions, access_token, old_track, old_start_time, seen_change>>

\* the handler is started as a task of its own and the loop goes on
MonitorAfterDispatchMutNotAwaited == "sleep"

\* monitor.py:165-167: "await self.on_track_change(current_song)"
MonitorAfterDispatch == "in_handler"

\* The handler has its content (youtube_music_integration.py:70-77 with
\* content_generator.py:159-177, or content_generator.py:198-206): with
\* audio_url and text present the break begins, else the handler returns;
\* from is where the content came from
HandlerHasContent(from, usable, b) ==
  IF usable
  THEN /\ BreakBegins(b)
       /\ hnd' = [hnd EXCEPT !.pc = "break", !.source = from, !.breaks = @ + 1]
       /\ mpc' = MonitorAfterDispatch
  ELSE /\ hnd' = [hnd EXCEPT !.pc = "idle", !.source = from]
       /\ mpc' = "sleep"
       /\ UNCHANGED <<bpc, brk>>

\* monitor.py:165-167 with youtube_music_integration.py:63-68: the handler
\* is called and calls get_next_content, which serves an item or begins its
\* emergency generation call
HandlerCalled ==
  /\ mpc = "handler" /\ hnd.pc = "idle"
  /\ ContentQueueGetNext
  /\ iter' = [iter EXCEPT !.handler_calls = @ + 1]
  /\ LET called == [hnd EXCEPT !.dispatches = @ + 1, !.source = "none",
                               !.generation_calls = 0, !.fallback_calls = 0,
                               !.breaks = 0]
     IN IF last_get'.state = "queue"
        THEN \E usable \in BOOLEAN : \E b \in IntegrationBreakInputs :
               IF usable
               THEN /\ BreakBegins(b)
                    /\ hnd' = [called EXCEPT !.pc = "break", !.source = "queue",
                                             !.breaks = 1]
                    /\ mpc' = MonitorAfterDispatch
               ELSE /\ hnd' = [called EXCEPT !.source = "queue"]
                    /\ mpc' = "sleep"
                    /\ UNCHANGED <<bpc, brk>>
        ELSE /\ hnd' = [called EXCEPT !.pc = "get", !.source = "emergency",
                                      !.generation_calls = 1]
             /\ mpc' = MonitorAfterDispatch
             /\ UNCHANGED <<bpc, brk>>
  /\ UNCHANGED <<now, callVars, ipc, starts, player_calls, monitorRest>>

\* the emergency generation call of get_next_content returns
\* (content_queue.py:194-215): with an item the handler goes on to the break,
\* with None to the fallback, ContentGenerator.handle_song_switch, which
\* awaits a generation call of its own (youtube_music_integration.py:78-81,
\* content_generator.py:196)
HandlerEmergencyReturns ==
  /\ hnd.pc = "get"
  /\ ContentQueueEmergencyReturns
  /\ IF last_get'.state = "emergency_item"
     THEN \E usable \in BOOLEAN : \E b \in IntegrationBreakInputs :
            HandlerHasContent("emergency", usable, b)
     ELSE IF last_get'.state = "emergency_none"
     THEN /\ hnd' = [hnd EXCEPT !.pc = "fallback", !.source = "fallback",
                                !.generation_calls = @ + 1,
                                !.fallback_calls = @ + 1]
          /\ UNCHANGED <<mpc, bpc, brk>>
     ELSE /\ hnd' = [hnd EXCEPT !.generation_calls = @ + 1]
          /\ UNCHANGED <<mpc, bpc, brk>>
  /\ UNCHANGED <<now, callVars, ipc, starts, player_calls, monitorRest, iter>>

\* call_radio_server_api returns to ContentGenerator.handle_song_switch
\* (content_generator.py:196-208): a successful answer is played, whatever
\* its audio_url; otherwise the handler returns
HandlerFallbackReturns ==
  /\ hnd.pc = "fallback"
  /\ \E ok \in BOOLEAN : \E b \in IntegrationBreakInputs :
       HandlerHasContent("fallback", ok, b)
  /\ UNCHANGED <<now, callVars, ipc, starts, player_calls, monitorRest, iter, queueVars>>

\* the break returns to the handler, the handler to the polling loop
\* (content_generator.py:174, youtube_music_integration.py:74, monitor.py:167)
HandlerReturns ==
  /\ hnd.pc = "break" /\ bpc = "done"
  /\ bpc' = "idle"
  /\ brk' = NoBreak
  /\ player_calls' = <<>>
  /\ hnd' = [hnd EXCEPT !.pc = "idle", !.breaks_returned = @ + 1]
  /\ mpc' = IF mpc = "in_handler" THEN "sleep" ELSE mpc
  /\ UNCHANGED <<now, callVars, ipc, starts, monitorRest, iter, queueVars>>

\* while the handler is explored the player answers every query with a track
DispatchAnswers(token) ==
  { a \in IntegrationAnswers(token) : a.auth /\ a.first.status = 200 }

\* a poll while one more transition may be dispatched
DispatchingPoll ==
  /\ ipc = "monitoring" /\ hnd.dispatches < MaxDispatches
  /\ PollWith(DispatchAnswers(access_token))
DispatchingClassify ==
  ipc = "monitoring" /\ ClassifyWith(DispatchAnswers(access_token))

NextIntegration ==
  \/ IntegrationStart \/ GenerationReturns \/ RefillTaskRuns
  \/ IntegrationMonitors \/ DispatchingPoll \/ DispatchingClassify \/ Sleep
  \/ HandlerCalled \/ HandlerEmergencyReturns \/ HandlerFallbackReturns
  \/ BreakGetVolume \/ BreakPause1 \/ BreakPause2 \/ BreakPlayReturns
  \/ BreakWaitOver \/ BreakResume \/ BreakEmergencyResume \/ HandlerReturns
  \/ TriggerRuns \/ TaskFillEnters

InitIntegrationSpec ==
  /\ now = 0
  /\ InitMonitor
  /\ cl = [state |-> "idle"]
  /\ rq = [state |-> "idle"]
  /\ InitQueueWith(IntegrationQueueConfig)
  /\ InitBreak
  /\ InitIntegration

SpecIntegration == InitIntegrationSpec /\ [][NextIntegration]_vars

(***************************************************************************)
(* Claims about the integration (checked under SpecIntegration)            *)
(***************************************************************************)
BreakInFlight == bpc # "idle"

\* the step is the return of a break to the handler and the polling loop
BreakReturnsStep == bpc = "done" /\ bpc' = "idle"

C24_Step ==
  /\ (~BreakInFlight /\ BreakInFlight') =>
       /\ mpc = "handler" \/ (mpc = "in_handler" /\ hnd.pc \in {"get", "fallback"})
       /\ mpc' = "in_handler"
       /\ hnd.breaks_returned < hnd'.dispatches
       /\ player_calls = <<>>
  /\ hnd'.dispatches > hnd.dispatches => ~BreakInFlight /\ hnd.pc = "idle"
  /\ BreakReturnsStep =>
       /\ Count(player_calls, "pause") \in {0, 2}
       /\ Count(player_calls, "resume") = (IF Count(player_calls, "pause") = 2 THEN 1 ELSE 0)
       /\ mpc' = "sleep"

C24_State ==
  /\ (BreakInFlight \/ hnd.pc # "idle") => mpc = "in_handler"
  /\ mpc \in {"loop", "classify", "handler", "sleep"} => player_calls = <<>>
  /\ Count(player_calls, "pause") <= 2 /\ Count(player_calls, "resume") <= 1
  /\ hnd.breaks <= 1
  /\ hnd.breaks_returned <= hnd.dispatches

\* C24: at most one break is in progress at any time.  While a break or the
\* handler is in progress the polling loop is inside its await of the
\* handler, so it neither polls nor dispatches; a transition is dispatched
\* and a break begins only when no break is in flight and no player call of
\* an earlier break is outstanding; a break that paused returns only after
\* its resume, and one dispatch begins at most one break.
C24_OneBreakAtATime == [][C24_Step]_vars /\ []C24_State

\* a second break is in flight after the first has resumed and returned
C24_Witness ==
  /\ hnd.dispatches = 2 /\ hnd.breaks_returned = 1
  /\ bpc = "resume" /\ Count(player_calls, "pause") = 2
  /\ mpc = "in_handler"

\* C26 as stated: on the dispatch path generation is awaited only inside
\* get_next_content's emergency path; with a non-empty queue no generation
\* call is awaited, with an empty queue at most one per dispatched
\* transition.
C26_AsStated ==
  hnd.dispatches > 0 =>
    /\ hnd.fallback_calls = 0
    /\ hnd.source = "queue" => hnd.generation_calls = 0
    /\ hnd.generation_calls <= 1

\* C26, the part the code keeps: a dispatch served from a non-empty queue
\* awaits no generation call; one that finds the queue empty awaits the
\* emergency call of get_next_content, and a second call, made by the
\* fallback handler outside get_next_content, exactly when the first failed.
C26_GenerationOnDispatch ==
  hnd.dispatches > 0 =>
    /\ hnd.source = "queue" =>
         hnd.generation_calls = 0 /\ last_get.state = "queue" /\ last_get.before # <<>>
    /\ hnd.source = "emergency" =>
         hnd.generation_calls = 1 /\ hnd.fallback_calls = 0 /\ last_get.before = <<>>
    /\ hnd.source = "fallback" =>
         /\ hnd.generation_calls = 2 /\ hnd.fallback_calls = 1
         /\ last_get.state = "emergency_none" /\ last_get.before = <<>>

\* the fallback's generation call is awaited after the emergency call failed
C26_SecondGenerationAwaited ==
  /\ mpc = "in_handler" /\ hnd.pc = "fallback"
  /\ hnd.generation_calls = 2 /\ last_get.state = "emergency_none"

\* C37 as stated: every item get_next_content hands to a dispatch leads to
\* one execution of the pause/resume protocol: when the handler has returned
\* from a dispatch that had an item a break was begun, and a break that has
\* ended has paused and resumed the player.
C37_AsStated ==
  /\ (hnd.dispatches > 0 /\ hnd.pc = "idle"
        /\ hnd.source \in {"queue", "emergency"}) => hnd.breaks = 1
  /\ (hnd.pc = "break" /\ bpc = "done"
        /\ hnd.source \in {"queue", "emergency"}) =>
       /\ Count(player_calls, "pause") >= 1
       /\ Count(player_calls, "resume") = 1

\* C37, the part the code keeps: a break that is enabled and was begun for
\* an item with an audio reference and a text has asked for the volume once
\* and resumed the player once when it returns to the handler.
C37_EnabledBreakResumes ==
  [][(hnd.pc = "break" /\ hnd'.pc = "idle" /\ brk.input.enabled) =>
       /\ Count(player_calls, "get_volume") = 1
       /\ Count(player_calls, "resume") = 1]_vars

\* the handler has returned from a dispatch whose item came from the queue
\* without a break: no player request was made
C37_ConsumedWithoutBreak ==
  /\ hnd.dispatches = 1 /\ hnd.pc = "idle" /\ hnd.source = "queue"
  /\ hnd.breaks = 0 /\ hnd.breaks_returned = 0
  /\ last_get.state = "queue" /\ Len(served) = 1
  /\ player_calls = <<>> /\ bpc = "idle" /\ mpc = "sleep"

(***************************************************************************)
(* Claims about the content break (checked under SpecBreak)                *)
(***************************************************************************)
Pauses == Count(player_calls, "pause")
Resumes == Count(player_calls, "resume")

\* C1: a break that has issued its pause sequence issues exactly one resume
\* call after it, however the play step ends (played, playback failed, audio
\* missing, audio disabled, a step raised); no resume is issued before the
\* two pauses and never a second one.
C1_ExactlyOneResume ==
  /\ Resumes <= 1
  /\ Resumes = 1 => (Pauses = 2 /\ player_calls[Len(player_calls)] = "resume")
  /\ bpc = "done" => Resumes = (IF Pauses > 0 THEN 1 ELSE 0)
  /\ bpc \in {"playing", "waiting", "resume", "emergency"} =>
       (Pauses = 2 /\ Resumes = 0)

\* a step raised after the pauses and the break ended with its one resume
C1_Witness ==
  /\ bpc = "done"
  /\ brk.outcome = "raised"
  /\ Pauses = 2 /\ Resumes = 1

\* the orders of calls of a whole break: the play step plays, plays and
\* then waits, only waits, or makes no call
BreakOrders ==
  { <<"get_volume", "pause", "pause", "play", "resume">>,
    <<"get_volume", "pause", "pause", "play", "wait", "resume">>,
    <<"get_volume", "pause", "pause", "wait", "resume">>,
    <<"get_volume", "pause", "pause", "resume">> }

\* C19: the calls of a break are, in this order, one volume query, two pause
\* calls, the calls of the play step (playback, the estimated wait, or
\* playback followed by the wait) and one resume; playback never begins
\* before the second pause call, and a break that is enabled ends with the
\* whole order whatever the two pause calls returned.
C19_CallOrder ==
  /\ \E order \in BreakOrders :
       /\ Len(player_calls) <= Len(order)
       /\ player_calls = SubSeq(order, 1, Len(player_calls))
  /\ (bpc = "done" /\ brk.input.enabled) =>
       (player_calls \in BreakOrders /\ Len(brk.pause_ok) = 2)
  /\ bpc = "done" => (brk.input.enabled \/ player_calls = <<>>)

\* both pause calls reported failure; the audio was played and the player
\* resumed all the same
C19_Witness ==
  /\ bpc = "done"
  /\ brk.pause_ok = <<FALSE, FALSE>>
  /\ player_calls = <<"get_volume", "pause", "pause", "play", "resume">>

\* C20: when the volume query returns None the break goes on through all
\* its steps and the audio is played at volume 80; when the query returns a
\* volume the audio is played at exactly that volume; the break returns to
\* its caller either way.
C20_VolumeFallback ==
  /\ (bpc \in {"playing", "waiting", "resume", "done"}
        /\ brk.outcome \in {"playing", "played", "failed"}) =>
       /\ IsNone(brk.answer) => brk.played_at = Some(80)
       /\ ~IsNone(brk.answer) => brk.played_at = brk.answer
  /\ (bpc = "done" /\ brk.input.enabled /\ IsNone(brk.answer)) =>
       (player_calls \in BreakOrders /\ brk.volume = Some(80))

\* the volume query failed and the break played the audio at volume 80 and
\* resumed
C20_Witness ==
  /\ bpc = "done"
  /\ IsNone(brk.answer)
  /\ brk.outcome = "played" /\ brk.played_at = Some(80)
  /\ player_calls = <<"get_volume", "pause", "pause", "play", "resume">>

\* the volume query answered 35 and the audio was played at 35
C20_CapturedVolumePlayed ==
  /\ bpc = "done"
  /\ brk.answer = Some(35) /\ brk.played_at = Some(35)
  /\ brk.outcome = "played"

\* the break has gone past its play step without an error
PastPlayStep == bpc \in {"resume", "done"} /\ Pauses = 2 /\ brk.outcome # "raised"

\* the audio is not to be played, or its file cannot be located
AudioUnavailable ==
  \/ ~brk.input.play_audio
  \/ brk.input.audio_url \in {"local_missing", "not_local"}

\* C21 as stated: whenever playback is disabled or the audio cannot be located
\* (file missing, or a reference that is no local /audio/ path), the break
\* waits max(8, words / 150 x 60) seconds between the pauses and the resume.
C21_AsStated ==
  (PastPlayStep /\ AudioUnavailable) =>
     /\ Count(player_calls, "wait") = 1
     /\ brk.waited = Some(EstimatedDuration(Val(brk.input.words)))

\* what holds of C21: with playback disabled, or with a /audio/ reference
\* whose file does not exist, the break waits the estimated duration (at
\* least 8 seconds) after the pauses and before its resume
C21_DisabledOrMissingWaits ==
  (PastPlayStep /\ (~brk.input.play_audio \/ brk.input.audio_url = "local_missing")) =>
     /\ Count(player_calls, "wait") = 1
     /\ Count(player_calls, "play") = 0
     /\ brk.waited = Some(EstimatedDuration(Val(brk.input.words)))
     /\ Val(brk.waited) >= MinimumWait
     /\ SubSeq(player_calls, 1, 4) = <<"get_volume", "pause", "pause", "wait">>

\* a break whose audio reference is no /audio/ path resumed without any wait
C21_ResumedAtOnce ==
  /\ bpc = "done" /\ brk.input.play_audio
  /\ brk.input.audio_url = "not_local"
  /\ player_calls = <<"get_volume", "pause", "pause", "resume">>

\* C22: when play_audio_file reports failure for an audio file that was
\* found, the break waits the estimated duration max(8, words / 150 x 60),
\* the same as for a missing file, and then issues its resume; the failure
\* does not lead to the emergency resume and the break returns normally.
C22_PlaybackFailureWaits ==
  (bpc # "idle" /\ brk.outcome = "failed") =>
     /\ bpc \in {"waiting", "resume", "done"}
     /\ brk.input.audio_url = "local_present"
     /\ brk.waited = Some(EstimatedDuration(Val(brk.input.words)))
     /\ Val(brk.waited) >= MinimumWait
     /\ brk.recovery = "none"
     /\ SubSeq(player_calls, 1, 5) =
          <<"get_volume", "pause", "pause", "play", "wait">>
     /\ Resumes = (IF bpc = "done" THEN 1 ELSE 0)
     /\ bpc = "done" => Len(player_calls) = 6

\* the playback of a 25-word text failed: the break waited 10 seconds and
\* then resumed
C22_Witness ==
  /\ bpc = "done" /\ brk.outcome = "failed"
  /\ brk.input.words = Some(25) /\ brk.waited = Some(10)
  /\ player_calls =
       <<"get_volume", "pause", "pause", "play", "wait", "resume">>

\* C23: when a step of the break raises, exactly one emergency resume call
\* is made; whether that call succeeds, reports failure or raises itself, the
\* break ends and returns to its caller: no error leaves the break. The
\* emergency resume is made only after a raised step.
C23_OneEmergencyResume ==
  /\ bpc # "raised"
  /\ bpc = "emergency" =>
       (brk.outcome = "raised" /\ Resumes = 0 /\ brk.recovery = "none")
  /\ (bpc = "done" /\ brk.outcome = "raised") =>
       /\ Resumes = 1
       /\ player_calls[Len(player_calls)] = "resume"
       /\ brk.recovery \in ResumeOutcomes
  /\ (bpc # "idle" /\ brk.outcome # "raised") => brk.recovery = "none"

\* a step raised after the pauses, the emergency resume raised as well, and
\* the break still ended
C23_Witness ==
  /\ bpc = "done" /\ brk.outcome = "raised"
  /\ brk.recovery = "raised"
  /\ player_calls = <<"get_volume", "pause", "pause", "resume">>

(***************************************************************************)
(* Claims about the content queue (checked under SpecQueue)                *)
(***************************************************************************)
QueueIds == {queue[k].id : k \in 1..Len(queue)}

\* C2: get_next_content never returns the same ContentItem twice: the items
\* it has returned are pairwise distinct objects, and none of them is in the
\* queue (a served item was removed and is never re-queued, an emergency item
\* never enters the queue).
C2_NeverServedTwice ==
  /\ \A i, j \in 1..Len(served) : i # j => served[i] # served[j]
  /\ \A i \in 1..Len(served) : served[i] \notin QueueIds

\* two items have been served from the queue, with a refill in between, and
\* the queue holds further items
C2_Witness ==
  /\ Len(served) = 2
  /\ last_get.state = "queue"
  /\ queue # <<>>

\* C3: in every reachable state the queue holds at most max_queue_size items.
C3_QueueWithinCapacity == Len(queue) <= max_queue_size

\* the queue is full although a minimum is still unmet
C3_Witness ==
  /\ Len(queue) = max_queue_size
  /\ CountType(queue, "conversation") < min_conversations
  /\ CountType(queue, "ad") = min_ads

\* C10: the item a get_next_content call returns from the queue is not older
\* than max_age_minutes at the time of the call, and the items the call
\* evicts are exactly items older than that (an item aged exactly
\* max_age_minutes is kept).
C10_ExpiredNeverServed ==
  /\ last_get.state = "queue" =>
       last_get.time - last_get.item.created_at <= max_age_minutes * 60
  /\ last_get.state # "none" =>
       \A e \in last_get.evicted :
          last_get.time - e.created_at > max_age_minutes * 60

\* a call evicted an expired item and returned another item from the queue
C10_Witness ==
  /\ last_get.state = "queue"
  /\ last_get.evicted # {}
  /\ last_get.time - last_get.item.created_at <= max_age_minutes * 60

\* a call returned an item aged exactly max_age_minutes
C10_ExactAgeServed ==
  /\ last_get.state = "queue"
  /\ last_get.time - last_get.item.created_at = max_age_minutes * 60

\* C11: a get_next_content call that finds the queue non-empty after eviction
\* returns one of its items: when an item has been served from the queue before and
\* the queue holds an item of the other type, the returned item is of the other
\* type; otherwise (nothing served from the queue yet, or only the last-served type
\* present) no item of the queue is more recently created than the returned
\* one; after the call last_served_type is the type of the returned item.
C11_VarietyThenNewest ==
  last_get.state = "queue" =>
    LET q == last_get.before
        item == last_get.item
        last == last_get.last
        other == {j \in 1..Len(q) : Some(q[j].content_type) # last}
    IN /\ \E j \in 1..Len(q) : q[j] = item
       /\ (~IsNone(last) /\ other # {}) => Some(item.content_type) # last
       /\ (IsNone(last) \/ other = {}) =>
            \A j \in 1..Len(q) : q[j].created_at <= item.created_at
       /\ last_served_type = Some(item.content_type)

\* an ad was served last, the queue held an ad in front of a conversation,
\* and the conversation was returned
C11_Witness ==
  /\ last_get.state = "queue"
  /\ last_get.last = Some("ad")
  /\ Len(last_get.before) = 2
  /\ last_get.before[1].content_type = "ad"
  /\ last_get.item = last_get.before[2]
  /\ last_get.item.content_type = "conversation"

\* nothing was served before and the newest item, not the first, was returned
C11_NewestServed ==
  /\ last_get.state = "queue"
  /\ IsNone(last_get.last)
  /\ Len(last_get.before) = 2
  /\ last_get.item = last_get.before[2]
  /\ last_get.before[1].created_at < last_get.item.created_at

\* the deficits of a fill_queue run, from the queue it counted
AdDeficit(r) ==
  LET d == min_ads - CountType(r.entry, "ad") IN IF d > 0 THEN d ELSE 0
ConversationDeficit(r) ==
  LET d == min_conversations - CountType(r.entry, "conversation")
  IN IF d > 0 THEN d ELSE 0

\* a step of a fill_queue run: it enters, proceeds or finishes
FillStep == fill' # fill \/ last_fill' # last_fill

\* what C12 says of a finished run
C12_FinishedRun ==
  last_fill.pc = "done" =>
    /\ \A i \in 1..Len(last_fill.entry) :
         last_fill.entered_at - last_fill.entry[i].created_at
           <= max_age_minutes * 60
    /\ last_fill.ad_calls <= AdDeficit(last_fill)
    /\ last_fill.conversation_calls <= ConversationDeficit(last_fill)
    /\ (Len(last_fill.entry) + AdDeficit(last_fill)
          + ConversationDeficit(last_fill) <= max_queue_size) =>
         /\ last_fill.ad_calls = AdDeficit(last_fill)
         /\ last_fill.conversation_calls = ConversationDeficit(last_fill)
    /\ (/\ min_ads = 1 /\ min_conversations = 1 /\ max_queue_size = 4
        /\ Len(last_fill.entry) = 1
        /\ last_fill.entry[1].content_type = "conversation") =>
         (last_fill.ad_calls = 1 /\ last_fill.conversation_calls = 0)

\* what C12 says of the steps of a run: a run that ends with fewer calls than
\* its deficits ends with the queue at max_queue_size, and no step of a run
\* takes an unexpired item out of the queue
C12_RunStep ==
  FillStep =>
    /\ (last_fill' # last_fill /\
          (\/ last_fill'.ad_calls < AdDeficit(last_fill')
           \/ last_fill'.conversation_calls < ConversationDeficit(last_fill')))
         => Len(queue') >= max_queue_size
    /\ \A i \in 1..Len(queue) :
         now - queue[i].created_at <= max_age_minutes * 60
           => \E j \in 1..Len(queue') : queue'[j] = queue[i]

\* C12: a fill_queue run counts the queue after eviction, issues at most
\* max(0, min_ads - ads) ad generation calls and max(0, min_conversations -
\* conversations) conversation generation calls, exactly that many unless it
\* is cut short, which happens only with the queue at max_queue_size, and it
\* takes no unexpired item out of the queue; with one conversation queued,
\* minimums 1/1 and capacity 4 it issues exactly one ad call and no
\* conversation call.
C12_FillIssuesDeficit == []C12_FinishedRun /\ [][C12_RunStep]_vars

\* the run of the example: it counted one conversation and no ad, issued
\* one ad call, and the conversation is still queued in front of the new ad
C12_Witness ==
  /\ last_fill.pc = "done"
  /\ min_ads = 1 /\ min_conversations = 1 /\ max_queue_size = 4
  /\ Len(last_fill.entry) = 1
  /\ last_fill.entry[1].content_type = "conversation"
  /\ last_fill.ad_calls = 1 /\ last_fill.conversation_calls = 0
  /\ Len(queue) = 2 /\ queue[1] = last_fill.entry[1]
  /\ queue[2].content_type = "ad"

\* a run was cut short by the capacity: fewer calls than its deficits
C12_CutShort ==
  /\ last_fill.pc = "done"
  /\ last_fill.ad_calls + last_fill.conversation_calls
       < AdDeficit(last_fill) + ConversationDeficit(last_fill)

\* what C13 says of a finished run that had a failed call: each loop still
\* issued its calls, the failed ones included and none of them twice
C13_FinishedRun ==
  (last_fill.pc = "done"
     /\ last_fill.failed_ads + last_fill.failed_conversations > 0) =>
    /\ last_fill.failed_ads <= last_fill.ad_calls
    /\ last_fill.failed_conversations <= last_fill.conversation_calls
    /\ last_fill.ad_calls <= AdDeficit(last_fill)
    /\ last_fill.conversation_calls <= ConversationDeficit(last_fill)
    /\ (Len(last_fill.entry) + AdDeficit(last_fill)
          + ConversationDeficit(last_fill) <= max_queue_size) =>
         /\ last_fill.ad_calls = AdDeficit(last_fill)
         /\ last_fill.conversation_calls = ConversationDeficit(last_fill)

\* what C13 says of the steps: a failed generation call leaves the queue as
\* it is, and a run that ends has left the lock
C13_RunStep ==
  /\ failures' # failures => queue' = queue
  /\ last_fill' # last_fill => fill' = NoFill

\* C13: a generation call of a fill_queue run that fails adds nothing to the
\* queue and is not issued again, and the run still issues its remaining
\* calls (a failed ad call is followed by the conversation calls); the run
\* ends normally and releases the lock.
C13_FailureSkipsOneSlot == []C13_FinishedRun /\ [][C13_RunStep]_vars

\* a run on an empty queue whose ad call failed: the conversation call was
\* still issued, no second ad call was, and the lock is free
C13_Witness ==
  /\ last_fill.pc = "done"
  /\ last_fill.entry = <<>>
  /\ min_ads = 1 /\ min_conversations = 1
  /\ last_fill.failed_ads = 1 /\ last_fill.ad_calls = 1
  /\ last_fill.conversation_calls = 1
  /\ Len(queue) = 1 /\ queue[1].content_type = "conversation"
  /\ fill = NoFill

\* the queue is what the latest finished run counted, followed by one item
\* for each of its calls: every call succeeded and nothing was consumed or
\* evicted since the run entered
UntouchedSinceLastFill ==
  /\ last_fill.pc = "done"
  /\ last_fill.failed_ads + last_fill.failed_conversations = 0
  /\ Len(queue) = Len(last_fill.entry) + last_fill.ad_calls
                    + last_fill.conversation_calls
  /\ SubSeq(queue, 1, Len(last_fill.entry)) = last_fill.entry

\* C14: at most one fill_queue run is inside "async with generation_lock"
\* at any time; a run whose calls all succeeded, with nothing consumed
\* meanwhile, leaves no deficit behind (capacity permitting), and a run that
\* enters a queue without deficit issues no generation call: fills requested
\* together generate the deficit once.
C14_FillsSerialized ==
  /\ Len(fill) <= 1
  /\ UntouchedSinceLastFill =>
       (~BelowMinimum(queue) \/ Len(queue) >= max_queue_size)
  /\ (last_fill.pc = "done" /\ ~BelowMinimum(last_fill.entry)) =>
       last_fill.ad_calls + last_fill.conversation_calls = 0

\* a spawned fill_queue run is inside a generation call while another
\* requested fill waits for the lock
C14_Witness ==
  /\ Len(fill) = 1
  /\ fill[1].owner = "task" /\ fill[1].pc = "gen_ad"
  /\ fill_waiters >= 1

\* two fills were requested by two get_next_content calls; the later run
\* found the deficit filled by the earlier one and issued no call
C14_LaterFillIdle ==
  /\ Len(served) = 2 /\ failures = 0 /\ fill = NoFill /\ fill_waiters = 0
  /\ last_fill.pc = "done" /\ last_fill.owner = "task"
  /\ last_fill.ad_calls + last_fill.conversation_calls = 0
  /\ last_fill.entry = queue /\ Len(queue) = 2
  /\ next_id = 5

\* C15: a get_next_content call that finds the queue empty after eviction
\* makes exactly one generation call and returns to its caller either the
\* one item built from it, an item that never was in the queue, or None when
\* the call failed or raised; while the call is awaited nothing was returned.
C15_OneEmergencyCall ==
  /\ last_get.state \in {"emergency", "emergency_item", "emergency_none"} =>
       last_get.before = <<>>
  /\ last_get.state = "emergency" <=> cpc = "emergency"
  /\ last_get.state = "emergency" => last_get.calls = 0
  /\ last_get.state = "emergency_item" =>
       /\ last_get.calls = 1
       /\ served # <<>> /\ served[Len(served)] = last_get.item.id
       /\ \A i \in 1..Len(queue) : queue[i].id # last_get.item.id
  /\ last_get.state = "emergency_none" => last_get.calls = 1

\* the emergency generation call failed and the call returned None
C15_Witness ==
  /\ last_get.state = "emergency_none"
  /\ last_get.calls = 1
  /\ cpc = "idle" /\ served = <<>>

\* the emergency generation call succeeded
C15_ItemReturned ==
  /\ last_get.state = "emergency_item" /\ cpc = "idle"

\* the step in which get_next_content serves an item from the queue
ServesFromQueue == served' # served /\ last_get'.state = "queue"

\* what C16 says of the step that serves an item from the queue
C16_ServeStep ==
  ServesFromQueue =>
    /\ cpc = "idle" /\ cpc' = "idle"
    /\ next_id' = next_id /\ failures' = failures
    /\ fill' = fill /\ last_fill' = last_fill /\ fill_waiters' = fill_waiters
    /\ trigger_tasks' = trigger_tasks + 1
    /\ Len(queue') = Len(last_get'.before) - 1
    /\ \A i \in 1..Len(queue') : queue'[i] # last_get'.item

\* C16: get_next_content on a queue that is non-empty after eviction serves
\* its item and returns in one step: no generation call is made or awaited,
\* the fill lock and the runs inside it are not touched (a run suspended in
\* a generation call stays as it is), and the refill check is left behind
\* as a task that has not run when the item is already removed.
C16_ServeDoesNotWait == [][C16_ServeStep]_vars

\* an item was served while a fill_queue run that had counted it is
\* suspended in a generation call; the refill check has not run yet
C16_Witness ==
  /\ last_get.state = "queue" /\ cpc = "idle"
  /\ Len(fill) = 1 /\ fill[1].pc \in {"gen_ad", "gen_conversation"}
  /\ \E i \in 1..Len(fill[1].entry) : fill[1].entry[i] = last_get.item
  /\ \A i \in 1..Len(queue) : queue[i] # last_get.item
  /\ trigger_tasks >= 1

\* the step in which a start() call that found the cache not running returns
StartReturns ==
  \/ cpc \in {"start_wait_lock", "start_fill"} /\ cpc' = "idle"
  \/ cpc = "idle" /\ cpc' = "idle" /\ ~queue_is_running /\ queue_is_running'

\* a step of the background refill task itself (not its creation, not its
\* cancellation)
BackgroundStep ==
  \/ refill_wake_at' # refill_wake_at
  \/ refill_task = "created" /\ refill_task' \in {"sleeping", "done"}
  \/ refill_task = "sleeping" /\ refill_task' = "done"

\* what C17 says of the states in which start() has not returned yet
C17_WhileStarting ==
  cpc \in {"start_wait_lock", "start_fill"} =>
    /\ queue_is_running
    /\ refill_task \in {"none", "done"}
    /\ cpc = "start_fill" <=> \E k \in 1..Len(fill) : fill[k].owner = "start"

\* what C17 says of the steps
C17_Step ==
  /\ StartReturns =>
       /\ last_fill'.pc = "done" /\ last_fill'.owner = "start"
       /\ \A k \in 1..Len(fill') : fill'[k].owner # "start"
       /\ refill_task \in {"none", "done"} /\ refill_task' = "created"
  /\ (refill_task' = "created" /\ refill_task # "created") => StartReturns
  /\ (cpc = "idle" /\ queue_is_running) =>
       /\ cpc' \notin {"start_wait_lock", "start_fill"}
       /\ \A k \in 1..Len(fill') : fill'[k].owner # "start"
       /\ (last_fill' # last_fill => last_fill'.owner # "start")
  /\ BackgroundStep =>
       /\ queue' = queue /\ next_id' = next_id /\ failures' = failures
       /\ fill' = fill /\ last_fill' = last_fill
       /\ fill_waiters' \in {fill_waiters, fill_waiters + 1}

\* C17: a start() call on a cache that is not running returns only after
\* its own fill_queue run has completed, and creates the background task,
\* once, when it returns, no earlier task being alive; on a running cache no
\* start-made fill run and no task creation happens; a step of the
\* background task makes no generation call and changes neither the queue
\* nor the runs inside the lock, it only adds a waiting fill.
C17_StartFillsThenLaunches == []C17_WhileStarting /\ [][C17_Step]_vars

\* start() has returned: its fill run generated both minimums and the
\* background task is created and has not run yet
C17_Witness ==
  /\ cpc = "idle" /\ queue_is_running /\ refill_task = "created"
  /\ last_fill.pc = "done" /\ last_fill.owner = "start"
  /\ last_fill.ad_calls = 1 /\ last_fill.conversation_calls = 1
  /\ Len(queue) = 2 /\ served = <<>>

\* the background task woke up and left a fill waiting for the lock
C17_BackgroundSpawnedFill ==
  /\ refill_task = "sleeping" /\ refill_wake_at > RefillInterval
  /\ fill_waiters >= 1 /\ served = <<>>

\* what C18 says of the states: while stop() waits the cache is marked not
\* running and the task is cancelled or ended, and whenever no call is in
\* progress on a cache that is not running no background task is alive
C18_States ==
  /\ cpc = "stop_wait" =>
       (~queue_is_running /\ refill_task \in {"cancelling", "done"})
  /\ (cpc = "idle" /\ ~queue_is_running) => refill_task \in {"none", "done"}

\* what C18 says of the steps: stop() returns from its wait only when the
\* task has ended
C18_Step ==
  (cpc = "stop_wait" /\ cpc' = "idle") =>
     (refill_task = "done" /\ refill_task' = "done" /\ ~queue_is_running')

\* C18: stop() marks the cache not running and cancels the background task;
\* it returns only after the task has ended, and it always returns: at once
\* when the task had ended or was never created, and after the cancelled
\* task has ended when it was created or sleeping.
C18_StopAwaitsTask ==
  /\ []C18_States
  /\ [][C18_Step]_vars
  /\ (cpc = "stop_wait") ~> (cpc = "idle" /\ refill_task = "done")

\* stop() has returned after it cancelled a sleeping task: the cache is not
\* running and the task has ended
C18_Witness ==
  /\ cpc = "idle" /\ ~queue_is_running /\ refill_task = "done"
  /\ refill_wake_at = RefillInterval
  /\ Len(queue) >= 1

\* C33: in every reachable state the queue holds at most min_ads ads and at
\* most min_conversations conversations, hence at most
\* min(max_queue_size, min_ads + min_conversations) items: 2 with the default
\* settings, whose capacity is 4.
C33_QueueWithinMinimums ==
  /\ CountType(queue, "ad") <= min_ads
  /\ CountType(queue, "conversation") <= min_conversations
  /\ Len(queue) <= min_ads + min_conversations
  /\ Len(queue) <= max_queue_size
  /\ (max_queue_size = 4 /\ min_ads = 1 /\ min_conversations = 1) => Len(queue) <= 2

\* with the default settings a refill after a served item has brought the
\* queue back to its two items, half of its capacity
C33_Witness ==
  /\ max_queue_size = 4 /\ min_ads = 1 /\ min_conversations = 1
  /\ Len(served) >= 1
  /\ last_fill.pc = "done" /\ last_fill.owner = "task"
  /\ Len(queue) = 2 /\ fill = NoFill

\* stop() has returned, or start() was never called
QueueStopped == ~queue_is_running /\ cpc = "idle"

\* C34 as stated: once stop() has returned no fill_queue run is in progress
\* or waiting to start, so no generation call is made for the queue and no
\* item is added, whatever tasks were spawned before stop() was called.
C34_AsStated ==
  QueueStopped => (fill = NoFill /\ fill_waiters = 0)

\* C34, the part the code keeps: a _trigger_refill task that runs while the
\* queue is not running spawns no fill_queue task.
C34_TriggerAfterStopSpawnsNothing ==
  [][(~queue_is_running /\ trigger_tasks' < trigger_tasks)
       => fill_waiters' = fill_waiters]_vars

\* stop() has returned while a spawned fill_queue task is inside a
\* generation call
C34_FillOutlivesStop ==
  /\ QueueStopped
  /\ refill_task = "done"
  /\ Len(fill) = 1 /\ fill[1].owner = "task"
  /\ fill[1].pc \in {"gen_ad", "gen_conversation"}

\* both minimums are met, or the queue is at its capacity
MinimumsMet ==
  \/ /\ CountType(queue, "ad") >= min_ads
     /\ CountType(queue, "conversation") >= min_conversations
  \/ Len(queue) >= max_queue_size

\* a refill check or a fill_queue run is pending: a _trigger_refill task has
\* not run yet, a fill_queue run waits for the lock or is inside it, or the
\* background loop sleeps until a time the clock can reach
RefillPending ==
  \/ trigger_tasks > 0 \/ fill_waiters > 0 \/ fill # NoFill
  \/ /\ refill_task = "sleeping"
     /\ \/ now >= refill_wake_at
        \/ \E dt \in QueueTickSteps :
             now + dt <= MaxQueueTime /\ now + dt >= refill_wake_at

\* a generation call of the latest fill_queue run that ended has failed
LastFillFailed ==
  /\ last_fill.pc = "done"
  /\ last_fill.failed_ads + last_fill.failed_conversations > 0

\* a get_next_content call has been made and a type is below its minimum on
\* a running cache whose latest fill_queue run had no failure
RefillDue ==
  /\ queue_is_running /\ cpc = "idle" /\ last_get.state # "none"
  /\ ~MinimumsMet /\ RefillPending /\ ~LastFillFailed

\* what C35 says of a fill_queue run that ends: when none of its generation
\* calls failed and nothing was removed from the queue since it took the
\* lock (the queue holds the items found on entry and one item for each
\* call), both minimums are met, or the queue is full
C35_Step ==
  ((fill # NoFill /\ fill' = NoFill) \/ last_fill' # last_fill) =>
     LET f == last_fill' IN
       (/\ f.failed_ads = 0 /\ f.failed_conversations = 0
        /\ Len(queue') = Len(f.entry) + f.ad_calls + f.conversation_calls)
       => MinimumsMet'

\* C35: while the cache is running, after a get_next_content call that
\* leaves a type below its minimum, with the refill check it launched, a
\* fill_queue run or the next check of the background loop ahead, the queue
\* eventually holds min_ads ads and min_conversations conversations again,
\* or is full, unless a generation call of a fill_queue run fails or the
\* cache is stopped (the calls that hand out items are finitely many, so
\* that each is followed by a time without further consumption).  And a
\* fill_queue run that ends without a failed call and without a removal
\* during it leaves both minimums met, or the queue full.
C35_ToppedUp ==
  /\ [][C35_Step]_vars
  /\ RefillDue ~> (MinimumsMet \/ ~queue_is_running \/ LastFillFailed)

\* after an item was served from the queue, a fill_queue task spawned by the
\* refill check has made a generation call and ended with both minimums met
C35_Witness ==
  /\ queue_is_running /\ last_get.state = "queue"
  /\ last_fill.pc = "done" /\ last_fill.owner = "task"
  /\ last_fill.ad_calls + last_fill.conversation_calls >= 1
  /\ Len(last_fill.entry) < Len(queue)
  /\ fill = NoFill
  /\ CountType(queue, "ad") >= min_ads
  /\ CountType(queue, "conversation") >= min_conversations

\* what C36 says of the steps: a get_next_content call that finds the queue
\* empty after eviction leaves it empty, and while the call is on its
\* emergency path, up to and including its return, last_served_type keeps
\* its value and no refill check is launched; the item returned is an ad
C36_Step ==
  /\ (cpc = "idle" /\ cpc' = "emergency") =>
       /\ queue' = <<>> /\ last_get'.before = <<>>
       /\ RemoveExpired(queue, max_age_minutes, now) = <<>>
  /\ (cpc = "emergency" \/ cpc' = "emergency") =>
       /\ last_served_type' = last_served_type
       /\ trigger_tasks' <= trigger_tasks
  /\ (cpc = "emergency" /\ cpc' = "idle") =>
       /\ queue' = queue
       /\ last_get'.state \in {"emergency_item", "emergency_none"}
       /\ last_get'.state = "emergency_item" =>
            /\ last_get'.item.content_type = "ad"
            /\ served' = Append(served, last_get'.item.id)
       /\ last_get'.state = "emergency_none" => served' = served

\* C36: on the emergency path (queue empty after eviction) get_next_content
\* leaves the queue empty, leaves last_served_type unchanged and launches no
\* refill check, and the item it returns is of type ad whatever type was
\* served last.
C36_EmergencyPath == [][C36_Step]_vars

\* an emergency ad was returned after an ad had been served from the queue,
\* whose other items had expired
C36_Witness ==
  /\ cpc = "idle" /\ last_get.state = "emergency_item"
  /\ last_get.item.content_type = "ad"
  /\ last_served_type = Some("ad")
  /\ last_get.evicted # {}
  /\ trigger_tasks = 0 /\ fill_waiters = 0 /\ fill = NoFill /\ queue = <<>>

(***************************************************************************)
(* Claims about the polling loop (checked under SpecMonitor)               *)
(***************************************************************************)
IterPolled == iter.state = "polled"
\* the poll of this iteration reported a track whose derived id differs from
\* the id that was stored when the poll was made
IterDiffers ==
  /\ IterPolled
  /\ ~IsNone(iter.polled)
  /\ iter.pre_id # Some(Val(iter.polled).id \o "_" \o Val(iter.polled).title
                          \o "_" \o Val(iter.polled).artist)

\* C4: in every iteration of the polling loop the handler is invoked exactly
\* once if the poll detected a track change and the change was classified
\* natural, and not at all otherwise (change classified manual, same track
\* polled again, no track reported).
C4_HandlerOncePerNaturalChange ==
  /\ IterPolled => iter.handler_calls <= 1
  /\ mpc = "handler" =>
       (IterDiffers /\ iter.result = "natural" /\ iter.handler_calls = 0)
  /\ mpc = "sleep" =>
       iter.handler_calls = (IF IterDiffers /\ iter.result = "natural" THEN 1 ELSE 0)
  /\ mpc \in {"idle", "loop", "exited"} => iter.state = "none"

\* an iteration ends after a natural change with its one handler invocation
C4_Witness ==
  /\ mpc = "sleep" /\ IterDiffers
  /\ iter.result = "natural" /\ iter.handler_calls = 1

\* C5: on every poll the track-changed step (old snapshot and start time
\* captured, current_track_id / current_track_info / track_start_time replaced
\* by the polled track, classification run once) happens if and only if the id
\* derived from the polled track differs from the stored current_track_id.
C5_TrackChangedIffIdDiffers ==
  IterPolled =>
    /\ iter.classify_runs <= 1
    /\ IterDiffers =>
         /\ old_track = iter.pre_info
         /\ old_start_time = iter.pre_start
         /\ current_track_id = Some(TrackId(Val(iter.polled)))
         /\ current_track_info = iter.polled
         /\ track_start_time = Some(iter.poll_time)
         /\ iter.classify_runs = (IF mpc = "classify" THEN 0 ELSE 1)
    /\ ~IterDiffers =>
         /\ iter.classify_runs = 0
         /\ iter.result = "none"
         /\ mpc = "sleep"
         /\ track_start_time = iter.pre_start
         /\ ~IsNone(iter.polled) => current_track_id = iter.pre_id

\* a change from one tracked track to another, classified once
C5_Witness ==
  /\ mpc = "sleep" /\ IterDiffers
  /\ ~IsNone(iter.pre_id)
  /\ iter.classify_runs = 1

C25_Step ==
  (mpc' = "exited" /\ mpc # "exited") => (mpc = "loop" /\ ~monitor_is_running)

\* C25: every iteration of the polling loop, whatever happened in it (the
\* player query failed, the classification ran into an error, the handler
\* raised), goes through the sleep back to the head of the loop, where the
\* next poll is made unless stop has been requested; the loop is left only
\* when stop has been requested.
C25_LoopSurvives ==
  /\ [][C25_Step]_vars
  /\ IterPolled ~> (mpc = "loop")
  /\ (mpc = "loop" /\ monitor_is_running) ~> (IterPolled \/ ~monitor_is_running)

\* the handler raised and the loop, still running, is at its sleep
C25_Witness ==
  /\ mpc = "sleep" /\ monitor_is_running
  /\ iter.handler_outcome = "raised" /\ iter.handler_calls = 1

\* the player query failed and the loop, still running, is at its sleep
C25_FailedQuerySleeps ==
  /\ mpc = "sleep" /\ monitor_is_running
  /\ iter.query = "failed"

\* the player answered the poll of this iteration with "nothing is playing"
IterNoTrack == IterPolled /\ iter.query = "nothing"

\* C29 as stated: a poll answered with "nothing is playing" while a track is
\* tracked makes current_track_id, current_track_info and track_start_time
\* all absent.
C29_AsStated ==
  (IterNoTrack /\ ~IsNone(iter.pre_id)) =>
     /\ IsNone(current_track_id)
     /\ IsNone(current_track_info)
     /\ IsNone(track_start_time)

\* C29 (amended): a poll answered with "nothing is playing" while a track is
\* tracked reports the stop once and makes current_track_id and
\* current_track_info absent, while track_start_time keeps its value; such a
\* poll made while nothing is tracked changes nothing and reports nothing;
\* no such poll runs the classification or invokes the handler; a track
\* reported while nothing is tracked is classified manual, as a first track
\* is, without asking the player again, although the old start time is
\* still there.
C29_StoppedClearsTrack ==
  /\ IsNone(current_track_id) <=> IsNone(current_track_info)
  /\ IterNoTrack =>
       /\ IsNone(iter.polled)
       /\ IsNone(current_track_id) /\ IsNone(current_track_info)
       /\ track_start_time = iter.pre_start
       /\ iter.stopped <=> ~IsNone(iter.pre_id)
       /\ mpc = "sleep"
       /\ iter.classify_runs = 0 /\ iter.handler_calls = 0
  /\ (IterDiffers /\ IsNone(iter.pre_id)) =>
       /\ IsNone(iter.pre_info)
       /\ mpc = "sleep" /\ iter.result = "manual"
       /\ iter.classify_runs = 1 /\ iter.handler_calls = 0

\* after a stop a track is reported again: the start time of the track that
\* stopped is still stored, and the change is classified manual
C29_Witness ==
  /\ IterDiffers /\ IsNone(iter.pre_id) /\ ~iter.first
  /\ ~IsNone(iter.pre_start)
  /\ mpc = "sleep" /\ iter.result = "manual"

\* the stop of a tracked track has just been reported
C29_StopReported ==
  /\ IterNoTrack /\ iter.stopped
  /\ ~IsNone(iter.pre_info) /\ IsNone(current_track_info)

\* C30 as stated: a poll whose player query fails leaves current_track_id,
\* current_track_info and track_start_time unchanged; only the answer that
\* nothing is playing clears the tracking state.
C30_AsStated ==
  /\ (IterPolled /\ iter.query = "failed") =>
       /\ current_track_id = iter.pre_id
       /\ current_track_info = iter.pre_info
       /\ track_start_time = iter.pre_start
  /\ (IterPolled /\ ~IsNone(iter.pre_id) /\ IsNone(current_track_id)) =>
       iter.query = "nothing"

\* a failed player query has cleared the track that was tracked, 10 seconds
\* into its 40 seconds
C30_ClearedByFailedPoll ==
  /\ IterPolled /\ iter.query = "failed" /\ iter.stopped
  /\ Val(iter.pre_info).duration_seconds = Some(40)
  /\ Val(iter.pre_info).current_time_seconds = Some(10)
  /\ IsNone(current_track_id) /\ IsNone(current_track_info)

\* the iteration has classified a change after asking the player again
IterRequeried == IterPolled /\ iter.requery # Missing

\* the position the classification of this iteration is taken from: the
\* re-queried one when the re-query reports the old track's id, else the
\* position the old snapshot held when the change was detected
IterPosition ==
  IF ~IsNone(iter.requery) /\ Val(iter.requery).id = Val(iter.pre_info).id
  THEN Val(iter.requery).current_time_seconds
  ELSE Val(iter.pre_info).current_time_seconds

\* a poll that reports the stored track stores its position; the
\* classification step leaves the tracking state alone
C31_Step ==
  /\ (mpc = "loop" /\ IterPolled' /\ ~IsNone(iter'.polled) /\ ~IterDiffers'
        /\ ~IsNone(current_track_info)) =>
       Val(current_track_info').current_time_seconds =
         Val(iter'.polled).current_time_seconds
  /\ (mpc = "loop" /\ IterDiffers') => old_track' = current_track_info
  /\ mpc = "classify" =>
       /\ old_track = iter.pre_info
       /\ UNCHANGED <<current_track_id, current_track_info, track_start_time,
                      old_track, old_start_time>>

C31_Decision ==
  (IterRequeried /\ ~IsNone(Val(iter.pre_info).duration_seconds)
     /\ Val(Val(iter.pre_info).duration_seconds) > 0 /\ ~IsNone(IterPosition)) =>
    (iter.result = "natural" <=>
       Val(Val(iter.pre_info).duration_seconds) - Val(IterPosition) <= 30)

\* C31: classification takes its position from the re-query when the
\* re-query still reports the old track's id, and otherwise from the old
\* snapshot, which holds the position of the most recent poll that reported
\* the old track (every such poll stores its position) and not that of the
\* track's first snapshot; the classification step changes none of
\* current_track_id, current_track_info and track_start_time.
C31_PositionSource == [][C31_Step]_vars /\ []C31_Decision

\* the re-query reports another video, and the change is natural by the
\* position stored from the old track's last poll
C31_Witness ==
  /\ IterRequeried /\ ~IsNone(iter.requery)
  /\ Val(iter.requery).id # Val(iter.pre_info).id
  /\ Val(iter.pre_info).current_time_seconds = Some(10)
  /\ iter.result = "natural"

\* the re-query still reports the old video, at a position of its own
C31_FreshPositionUsed ==
  /\ IterRequeried /\ ~IsNone(iter.requery)
  /\ Val(iter.requery).id = Val(iter.pre_info).id
  /\ Val(iter.pre_info).current_time_seconds = Some(10)
  /\ Val(iter.requery).current_time_seconds = Some(5)
  /\ iter.result = "manual"

\* the step is a poll that reports the stored track
SameTrackPollStep ==
  mpc = "loop" /\ IterPolled' /\ ~IsNone(iter'.polled) /\ ~IterDiffers'

C32_Step ==
  SameTrackPollStep =>
    /\ UNCHANGED <<current_track_id, track_start_time>>
    /\ ~IsNone(current_track_info) /\ ~IsNone(current_track_info')
    /\ LET before == Val(current_track_info)
           after == Val(current_track_info')
           polled == Val(iter'.polled)
       IN /\ after.id = before.id /\ after.title = before.title
          /\ after.artist = before.artist
          /\ after.duration_seconds = before.duration_seconds
          /\ after.current_time_seconds = polled.current_time_seconds
          /\ after.is_playing = polled.is_playing
    /\ mpc' = "sleep"
    /\ iter'.classify_runs = 0 /\ iter'.handler_calls = 0

\* C32: a poll that reports the stored track id leaves current_track_id and
\* track_start_time unchanged and, of current_track_info, changes only the
\* position and the playing flag, which become the poll's, while id, title,
\* artist and duration stay; the iteration goes to its sleep without a
\* classification and without a handler call.
C32_SameTrackMergesPosition ==
  /\ [][C32_Step]_vars
  /\ [](mpc = "sleep" /\ IterPolled /\ ~IterDiffers =>
          iter.classify_runs = 0 /\ iter.handler_calls = 0)

\* the same track was polled with another duration and another position:
\* the position is stored, the duration is not
C32_Witness ==
  /\ mpc = "sleep" /\ IterPolled /\ ~IsNone(iter.polled) /\ ~IterDiffers
  /\ Val(iter.polled).duration_seconds = Some(0)
  /\ Val(current_track_info).duration_seconds = Some(40)
  /\ Val(iter.pre_info).current_time_seconds = Some(5)
  /\ Val(current_track_info).current_time_seconds = Some(10)

\* C38 as stated: the handler is invoked only when the track that ended and
\* the track the poll reported are different videos.
C38_AsStated ==
  mpc = "handler" =>
    /\ ~IsNone(old_track) /\ ~IsNone(iter.polled)
    /\ Val(old_track).id # Val(iter.polled).id

\* C38, the part the code keeps: the handler is invoked only when the id
\* derived from video id, title and artist differs between the track that
\* ended and the track the poll reported.
C38_DerivedIdsDiffer ==
  mpc = "handler" =>
    /\ ~IsNone(old_track) /\ ~IsNone(iter.polled)
    /\ TrackId(Val(old_track)) # TrackId(Val(iter.polled))
    /\ iter.pre_id = Some(TrackId(Val(old_track)))

\* the handler is about to be invoked for a poll that reported the video of
\* the stored track under another title, the re-query having reported the
\* same video within 30 seconds of its end
C38_SameVideoDispatched ==
  /\ mpc = "handler" /\ ~IsNone(old_track) /\ ~IsNone(iter.polled)
  /\ Val(old_track).id = Val(iter.polled).id
  /\ Val(old_track).title # Val(iter.polled).title
  /\ iter.requery # Missing /\ ~IsNone(iter.requery)
  /\ Val(iter.requery).id = Val(old_track).id
  /\ Val(old_track).duration_seconds = Some(40)
  /\ Val(iter.requery).current_time_seconds = Some(10)

\* stop_monitoring() has been called and start_monitoring has not returned
StopRequested == ~monitor_is_running /\ mpc \in {"loop", "classify", "handler", "sleep"}

\* what C39 says of the steps: with the flag false the loop, at its
\* condition, starts no poll (no query, no session, no change of the stored
\* track) and can only return; an iteration in progress only moves on
\* through its classification, its handler and its sleep; and
\* start_monitoring, once returned, stays returned
C39_Step ==
  /\ (~monitor_is_running /\ mpc = "loop") =>
       /\ mpc' \in {"loop", "exited"}
       /\ iter' = iter /\ sessions' = sessions
       /\ current_track_id' = current_track_id
       /\ current_track_info' = current_track_info
  /\ (~monitor_is_running /\ mpc = "classify") => mpc' \in {"classify", "handler", "sleep"}
  /\ (~monitor_is_running /\ mpc = "handler") => mpc' \in {"handler", "sleep"}
  /\ (~monitor_is_running /\ mpc = "sleep") => mpc' \in {"sleep", "loop"}
  /\ StopRequested => ~monitor_is_running'
  /\ mpc = "exited" => mpc' = "exited"

\* C39: after stop_monitoring() is called while the polling loop runs,
\* start_monitoring returns: it finishes at most the iteration in progress,
\* the handler it has dispatched included, and starts no new poll once the
\* loop condition finds the flag false.
C39_StopTerminates ==
  /\ [][C39_Step]_vars
  /\ StopRequested ~> (mpc = "exited")

\* stop_monitoring() was called while the handler of a dispatched transition
\* was still to run
C39_Witness ==
  /\ ~monitor_is_running /\ mpc = "handler"
  /\ iter.result = "natural" /\ iter.handler_calls = 0

(***************************************************************************)
(* Claims about was_natural_transition (checked under SpecClassify)        *)
(***************************************************************************)
ClReturned == cl.state = "returned"
ClHasHistory == ~IsNone(cl.input.old_track) /\ ~IsNone(cl.input.track_start)
ClOld == Val(cl.input.old_track)
ClDuration == ClOld.duration_seconds
\* the position the decision is taken from: the re-queried one when the
\* re-query reports the old track's id, the old track's last merged one otherwise
ClPosition ==
  IF ~IsNone(cl.input.current_song) /\ Val(cl.input.current_song).id = ClOld.id
  THEN Val(cl.input.current_song).current_time_seconds
  ELSE ClOld.current_time_seconds
ClRemainingKnown == ClHasHistory /\ ~IsNone(ClDuration) /\ ~IsNone(ClPosition)
ClRemaining == Val(ClDuration) - Val(ClPosition)
ClMonitored == cl.input.now_ - Val(cl.input.track_start)

\* C6 as stated: for every old snapshot and every source of position the
\* result is natural when duration - position <= 30 and manual when it is > 30.
C6_AsStated ==
  (ClReturned /\ ClRemainingKnown) =>
     /\ (ClRemaining <= NaturalThreshold => cl.result = "natural")
     /\ (ClRemaining > NaturalThreshold => cl.result = "manual")

\* C6 (amended): for every old snapshot with a known positive duration and
\* every source of a known position, the result is natural when
\* duration - position <= 30 (exactly 30 included) and manual when it is > 30;
\* duration 200 / position 175 is natural, duration 200 / position 100 manual.
C6_RemainingThreshold ==
  (ClReturned /\ ClRemainingKnown /\ Val(ClDuration) > 0) =>
     /\ (ClRemaining <= 30 => cl.result = "natural")
     /\ (ClRemaining > 30 => cl.result = "manual")
     /\ (ClDuration = Some(200) /\ ClPosition = Some(175) => cl.result = "natural")
     /\ (ClDuration = Some(200) /\ ClPosition = Some(100) => cl.result = "manual")

\* remaining is exactly 30 seconds and the change was classified natural
C6_Witness ==
  /\ ClReturned /\ ClRemainingKnown
  /\ ClDuration = Some(200) /\ ClPosition = Some(170)
  /\ cl.result = "natural"

\* C8 as stated: when the re-query yields no track the result is natural if
\* and only if now - oldStartTime >= 0.70 x oldDuration, whatever the position.
C8_AsStated ==
  (ClReturned /\ ClHasHistory /\ IsNone(cl.input.current_song)
     /\ ~IsNone(ClDuration) /\ Val(ClDuration) > 0) =>
     (cl.result = "natural" <=> 10 * ClMonitored >= 7 * Val(ClDuration))

\* C8 (amended): when the re-query yields no track the decision is taken from
\* the old track's last merged position by the 30-second rule, independent of
\* the wall clock; the wall-clock rule (natural iff the duration is positive
\* and now - oldStartTime >= 0.70 x oldDuration) decides only when the position the
\* decision would be taken from is unknown (None), which makes the position
\* rules raise.
C8_NoAnswerUsesLastPosition ==
  /\ (ClReturned /\ ClRemainingKnown /\ IsNone(cl.input.current_song)
        /\ Val(ClDuration) > 0) =>
       (cl.result = "natural" <=>
          Val(ClDuration) - Val(ClOld.current_time_seconds) <= 30)
  /\ (ClReturned /\ ClHasHistory /\ IsNone(ClPosition) /\ ~IsNone(ClDuration)) =>
       (cl.result = "natural" <=>
          (Val(ClDuration) > 0 /\ 10 * ClMonitored >= 7 * Val(ClDuration)))

\* the re-query yielded nothing, the track was monitored for 0 seconds, and
\* the change was still classified natural from the stored position
C8_Witness ==
  /\ ClReturned /\ ClRemainingKnown /\ IsNone(cl.input.current_song)
  /\ ClDuration = Some(200) /\ ClOld.current_time_seconds = Some(175)
  /\ ClMonitored = 0
  /\ cl.result = "natural"

====
